---------------------------- MODULE Spec2Model ----------------------------
(***************************************************************************)
(* BMX codec (Fulgen301/bmx-shell): the 32-byte file header (src/bmx.rs),  *)
(* the scanline geometry (src/com/wic/util.rs), the WIC frame encoder      *)
(* (src/com/wic/encoder/mod.rs) and the WIC decoder                        *)
(* (src/com/wic/decoder/mod.rs), as state machines.                        *)
(*                                                                         *)
(* Three specifications share the module:                                  *)
(*   SpecHeader   FileHeader::to_bytes / from_bytes / validate on headers  *)
(*                drawn from bounded field sets;                           *)
(*   Spec         one FrameEncoder with its parent BitmapEncoder and the   *)
(*                output stream;                                           *)
(*   SpecDecoder  one BitmapDecoder over an input stream, with the frames' *)
(*                CopyPixels.                                              *)
(* Integers keep the width the code gives them: u8 is 0..255, u16 is       *)
(* 0..65535, and a cast `as u16` is % 65536.                               *)
(***************************************************************************)
EXTENDS Integers, Sequences, FiniteSets, TLC

VARIABLES
    \* ---- SpecHeader ----
    hdr,                \* the FileHeader under test
    hbytes,             \* to_bytes(hdr), or <<>> before it is taken
    parsed,             \* from_bytes(hbytes), or NoValue
    hbytes2,            \* to_bytes of the parsed header, or <<>>
    \* ---- SpecEntry, SpecLine: the pure conversions ----
    argb,               \* the colour under test, <<AA, RR, GG, BB>>
    entry,              \* the PaletteEntry made of it: [via, e], or NoValue
    rgb_out,            \* to_rgb of the entry: [rgb], or NoValue
    wic_out,            \* to_wic of the entry: [color], or NoValue
    repacked,           \* from_rgb of rgb_out, or NoValue
    line,               \* bytes_per_line under test: [width, bit_depth] and then bytes
    \* ---- Spec: FrameEncoderData, its parent and the stream ----
    header,             \* FrameEncoderData.header: NoValue (None) or a FileHeader
    palette,            \* FrameEncoderData.palette: NoValue or [tag, colors]
    image_data,         \* FrameEncoderData.image_data: sequence of Chunk
    accumulated_height, \* FrameEncoderData.accumulated_height: u16
    parent_palette,     \* BitmapEncoderData.palette: NoValue or [colors]
    sink,               \* the bytes written to BitmapEncoderData.stream so far
    result,             \* outcome of the last frame call
    last,               \* the last frame call with what it observed
    commits,            \* number of Commit calls that returned Ok
    panicked,           \* a call panicked while holding the frame's write lock
    overflow_checks,    \* build profile: TRUE panics on integer overflow, FALSE wraps
    \* ---- SpecDecoder ----
    file,               \* the input IStream: [bytes, position, short_read]
    decoder,            \* BitmapDecoder.inner: NoValue or BitmapDecoderData
    pos,                \* position of the decoder's region stream
    dest,               \* the caller's buffer after the last CopyPixels: [bytes, overrun]
    dresult,            \* outcome of the last decoder call
    dlast,              \* the last decoder call with its arguments
    calls,              \* number of CopyPixels calls made
    threads             \* the CopyPixels call each caller thread is in

pvars == <<argb, entry, rgb_out, wic_out, repacked, line>>
hvars == <<hdr, hbytes, parsed, hbytes2, pvars>>
evars == <<header, palette, image_data, accumulated_height, parent_palette,
           sink, result, last, commits, panicked, overflow_checks>>
dvars == <<file, decoder, pos, dest, dresult, dlast, calls, threads>>
vars == <<hvars, evars, dvars>>

NoValue == [none |-> TRUE]

U8 == 256
U16 == 65536

Min(a, b) == IF a < b THEN a ELSE b
Max(a, b) == IF a > b THEN a ELSE b

(***************************************************************************)
(* src/bmx.rs: FileHeader                                                  *)
(***************************************************************************)
HeaderSize == 32
PaletteEntrySize == 2

to_le_bytes(x) == <<x % 256, x \div 256>>
to_be_bytes(x) == <<x \div 256, x % 256>>
from_le_bytes(b0, b1) == b0 + 256 * b1

\* `as i8` of a byte and `as u8` of an i8.
as_i8(b) == IF b >= 128 THEN b - 256 ELSE b
as_u8(c) == (c + 256) % 256

Zero16 == [i \in 1..16 |-> 0]

\* impl Default for FileHeader
FileHeaderDefault ==
    [file_id |-> <<66, 77, 88>>, version |-> 1, bit_depth |-> 0,
     vera_color_depth_register |-> 0, width |-> 0, height |-> 0,
     pal_used |-> 0, pal_start |-> 0, data_start |-> 0, compressed |-> 0,
     vera_border_color |-> 0, reserved |-> Zero16]

palette_entry_count(h) == IF h.pal_used = 0 THEN 256 ELSE h.pal_used

\* validate with the version check moved behind the bit-depth check.
validate_version_late(h) ==
    IF h.file_id[1] # 66 \/ h.file_id[2] # 77 \/ h.file_id[3] # 88
        THEN "InvalidFileId"
    ELSE IF h.bit_depth \notin {1, 2, 4, 8} THEN "InvalidBitDepth"
    ELSE IF h.version # 1 THEN "InvalidVersion"
    ELSE IF h.vera_color_depth_register \notin 0..3
        THEN "InvalidVeraColorDepthRegister"
    ELSE IF <<h.bit_depth, h.vera_color_depth_register>>
                \notin {<<1, 0>>, <<2, 1>>, <<4, 2>>, <<8, 3>>}
        THEN "BitDepthMismatch"
    ELSE IF h.data_start < HeaderSize + PaletteEntrySize * palette_entry_count(h)
        THEN "InvalidDataStart"
    ELSE "Ok"

\* FileHeader::validate: "Ok" or the first failing check's error.
validate(h) ==
    IF h.file_id[1] # 66 \/ h.file_id[2] # 77 \/ h.file_id[3] # 88
        THEN "InvalidFileId"
    ELSE IF h.version # 1 THEN "InvalidVersion"
    ELSE IF h.bit_depth \notin {1, 2, 4, 8} THEN "InvalidBitDepth"
    ELSE IF h.vera_color_depth_register \notin 0..3
        THEN "InvalidVeraColorDepthRegister"
    ELSE IF <<h.bit_depth, h.vera_color_depth_register>>
                \notin {<<1, 0>>, <<2, 1>>, <<4, 2>>, <<8, 3>>}
        THEN "BitDepthMismatch"
    ELSE IF h.data_start < HeaderSize + PaletteEntrySize * palette_entry_count(h)
        THEN "InvalidDataStart"
    ELSE "Ok"

\* FileHeader::to_bytes: width and height little-endian, data_start big-endian.
to_bytes(h) ==
    <<h.file_id[1], h.file_id[2], h.file_id[3], h.version, h.bit_depth,
      h.vera_color_depth_register>>
    \o to_le_bytes(h.width) \o to_le_bytes(h.height)
    \o <<h.pal_used, h.pal_start>>
    \o to_be_bytes(h.data_start)
    \o <<as_u8(h.compressed), h.vera_border_color>>
    \o h.reserved

\* FileHeader::from_bytes: [ok, header] or [ok, err].
from_bytes(bytes) ==
    IF Len(bytes) # 32 THEN [ok |-> FALSE, err |-> "InvalidHeaderSize"]
    ELSE IF bytes[1] = 0 \/ bytes[2] = 0 \/ bytes[3] = 0
        THEN [ok |-> FALSE, err |-> "InvalidFileId"]
    ELSE LET h == [file_id |-> <<bytes[1], bytes[2], bytes[3]>>,
                   version |-> bytes[4],
                   bit_depth |-> bytes[5],
                   vera_color_depth_register |-> bytes[6],
                   width |-> from_le_bytes(bytes[7], bytes[8]),
                   height |-> from_le_bytes(bytes[9], bytes[10]),
                   pal_used |-> bytes[11],
                   pal_start |-> bytes[12],
                   data_start |-> from_le_bytes(bytes[13], bytes[14]),
                   compressed |-> as_i8(bytes[15]),
                   vera_border_color |-> bytes[16],
                   reserved |-> SubSeq(bytes, 17, 32)]
         IN IF validate(h) = "Ok" THEN [ok |-> TRUE, header |-> h]
            ELSE [ok |-> FALSE, err |-> validate(h)]

\* The header written as to_bytes lays it out, data_start big-endian.
header_memory_as_to_bytes(h) == to_bytes(h)

\* The in-memory image of the #[repr(C)] FileHeader that Commit hands to
\* stream_write_exact_items: every u16 in the target's byte order, which is
\* little-endian on every Windows target.
header_memory(h) ==
    <<h.file_id[1], h.file_id[2], h.file_id[3], h.version, h.bit_depth,
      h.vera_color_depth_register>>
    \o to_le_bytes(h.width) \o to_le_bytes(h.height)
    \o <<h.pal_used, h.pal_start>>
    \o to_le_bytes(h.data_start)
    \o <<as_u8(h.compressed), h.vera_border_color>>
    \o h.reserved

(***************************************************************************)
(* src/bmx.rs: PaletteEntry                                                *)
(***************************************************************************)
\* from_rgb with the green and blue nibbles in each other's place.
from_rgb_swapped(r, g, b) == [gb |-> (b \div 16) * 16 + (g \div 16), r |-> r \div 16]

from_rgb(r, g, b) == [gb |-> (g \div 16) * 16 + (b \div 16), r |-> r \div 16]

\* to_rgb without the shift back to the high nibble.
to_rgb_unshifted(e) == <<e.r % U8, (e.gb \div 16) % U8, (e.gb % 16) % U8>>

to_rgb(e) == <<(e.r * 16) % U8, ((e.gb \div 16) * 16) % U8, ((e.gb % 16) * 16) % U8>>

\* A 32-bit colour 0xAARRGGBB is the tuple <<AA, RR, GG, BB>> of its bytes:
\* (color >> 16) as u8 is color[2], (color >> 8) as u8 is color[3] and
\* color as u8 is color[4].
from_wic(color) == from_rgb(color[2], color[3], color[4])

to_wic(e) ==
    LET rgb == to_rgb(e)
    IN <<255, rgb[1], rgb[2], rgb[3]>>

\* The two bytes of a #[repr(C)] PaletteEntry { gb, r } in memory.
entry_memory(e) == <<e.gb, e.r>>

(***************************************************************************)
(* src/com/wic/util.rs                                                     *)
(***************************************************************************)
\* bytes_per_line with the product taken in u16.
bytes_per_line_u16(width, bit_depth) == ((((width * bit_depth) % U16) + 7) \div 8) % U16

bytes_per_line(width, bit_depth) == ((width * bit_depth + 7) \div 8) % U16

\* The pixel formats a caller can name: the four indexed formats and two
\* others (GUID_WICPixelFormat24bppBGR, GUID_WICPixelFormat32bppBGRA).
PixelFormats == {"1bppIndexed", "2bppIndexed", "4bppIndexed", "8bppIndexed",
                 "24bppBGR", "32bppBGRA"}

\* pixel_format_to_bit_depth: 0 stands for None.
pixel_format_to_bit_depth(pf) ==
    CASE pf = "1bppIndexed" -> 1
      [] pf = "2bppIndexed" -> 2
      [] pf = "4bppIndexed" -> 4
      [] pf = "8bppIndexed" -> 8
      [] OTHER -> 0

bit_depth_to_pixel_format(bd) ==
    CASE bd = 1 -> "1bppIndexed"
      [] bd = 2 -> "2bppIndexed"
      [] bd = 4 -> "4bppIndexed"
      [] bd = 8 -> "8bppIndexed"
      [] OTHER -> "None"

(***************************************************************************)
(* SpecHeader: headers drawn from bounded field sets, serialized, parsed   *)
(* and serialized again.                                                   *)
(***************************************************************************)
HdrFileIds == {<<66, 77, 88>>, <<66, 77, 89>>}
HdrVersions == {1, 2}
HdrBitDepths == {0, 1, 3, 8}
HdrRegisters == {0, 1, 3, 4}
HdrWidths == {0, 4, 258}
HdrPalUsed == {0, 1, 37}
HdrDataStarts == {10, 32, 34, 106, 256, 514, 544, 8194, 65535}
HdrCompressed == {-1, 0, 1}

TestHeaders ==
    [file_id : HdrFileIds, version : HdrVersions, bit_depth : HdrBitDepths,
     vera_color_depth_register : HdrRegisters, width : HdrWidths,
     height : {2}, pal_used : HdrPalUsed, pal_start : {0},
     data_start : HdrDataStarts, compressed : HdrCompressed,
     vera_border_color : {5}, reserved : {Zero16}]

EncoderIdle ==
    /\ header = NoValue /\ palette = NoValue /\ image_data = <<>>
    /\ accumulated_height = 0 /\ parent_palette = NoValue /\ sink = <<>>
    /\ result = NoValue /\ last = NoValue /\ commits = 0
    /\ panicked = FALSE /\ overflow_checks = FALSE

DecoderIdle ==
    /\ file = NoValue /\ decoder = NoValue /\ pos = 0 /\ dest = NoValue
    /\ dresult = NoValue /\ dlast = NoValue /\ calls = 0 /\ threads = NoValue

PureIdle ==
    /\ argb = NoValue /\ entry = NoValue /\ rgb_out = NoValue /\ wic_out = NoValue
    /\ repacked = NoValue /\ line = NoValue

HeaderIdle ==
    /\ hdr = NoValue /\ hbytes = <<>> /\ parsed = NoValue /\ hbytes2 = <<>>
    /\ PureIdle

HeaderInit ==
    /\ hdr \in TestHeaders
    /\ hbytes = <<>> /\ parsed = NoValue /\ hbytes2 = <<>>
    /\ PureIdle /\ EncoderIdle /\ DecoderIdle

Serialize ==
    /\ hbytes = <<>>
    /\ hbytes' = to_bytes(hdr)
    /\ UNCHANGED <<hdr, parsed, hbytes2, pvars, evars, dvars>>

Parse ==
    /\ hbytes # <<>> /\ parsed = NoValue
    /\ parsed' = from_bytes(hbytes)
    /\ UNCHANGED <<hdr, hbytes, hbytes2, pvars, evars, dvars>>

Reserialize ==
    /\ parsed # NoValue /\ parsed.ok /\ hbytes2 = <<>>
    /\ hbytes2' = to_bytes(parsed.header)
    /\ UNCHANGED <<hdr, hbytes, parsed, pvars, evars, dvars>>

HeaderNext == Serialize \/ Parse \/ Reserialize

SpecHeader == HeaderInit /\ [][HeaderNext]_vars

(***************************************************************************)
(* SpecParse: from_bytes on byte sequences: the 32 bytes of every          *)
(* combination of the field values below (zero magic bytes, wrong magic,   *)
(* bad version, depth, register, pairing and data_start, alone and         *)
(* together), and sequences of 1, 31 and 33 bytes.                         *)
(***************************************************************************)
ParseFileIds == {<<66, 77, 88>>, <<66, 77, 89>>, <<66, 0, 88>>, <<0, 77, 88>>}
ParseBitDepths == {0, 1, 2, 3, 4, 8}
ParseRegisters == {0, 1, 2, 3, 4}
ParseDataStarts == {10, 32, 33, 34, 105, 106, 543, 544, 8194}

ParseFields ==
    [file_id : ParseFileIds, version : HdrVersions, bit_depth : ParseBitDepths,
     vera_color_depth_register : ParseRegisters, width : {4}, height : {2},
     pal_used : HdrPalUsed, pal_start : {0}, data_start : ParseDataStarts,
     compressed : {0}, vera_border_color : {5}, reserved : {Zero16}]

\* A header that passes every check.
ParseValid ==
    [FileHeaderDefault EXCEPT !.bit_depth = 8, !.vera_color_depth_register = 3,
                              !.data_start = 544]

ParseInputs ==
    {header_memory(f) : f \in ParseFields}
    \cup {<<66>>, SubSeq(header_memory(ParseValid), 1, 31),
          header_memory(ParseValid) \o <<0>>}

ParseInit ==
    /\ hdr = NoValue /\ hbytes \in ParseInputs
    /\ parsed = NoValue /\ hbytes2 = <<>>
    /\ PureIdle /\ EncoderIdle /\ DecoderIdle

ParseNext == Parse

SpecParse == ParseInit /\ [][ParseNext]_vars

(***************************************************************************)
(* SpecEntry: PaletteEntry::from_rgb, from_wic, to_rgb and to_wic applied  *)
(* to colours whose bytes are drawn from ByteSamples: both ends of the     *)
(* range, both sides of a nibble boundary and values with both nibbles     *)
(* set.                                                                    *)
(***************************************************************************)
ByteSamples == {0, 1, 15, 16, 17, 127, 128, 171, 240, 255}
AlphaSamples == {0, 18, 255}

EntryInit ==
    /\ argb \in AlphaSamples \X ByteSamples \X ByteSamples \X ByteSamples
    /\ entry = NoValue /\ rgb_out = NoValue /\ wic_out = NoValue
    /\ repacked = NoValue /\ line = NoValue
    /\ hdr = NoValue /\ hbytes = <<>> /\ parsed = NoValue /\ hbytes2 = <<>>
    /\ EncoderIdle /\ DecoderIdle

FromRgb ==
    /\ entry = NoValue
    /\ entry' = [via |-> "from_rgb", e |-> from_rgb(argb[2], argb[3], argb[4])]
    /\ UNCHANGED <<hdr, hbytes, parsed, hbytes2, argb, rgb_out, wic_out, repacked,
                   line, evars, dvars>>

FromWic ==
    /\ entry = NoValue
    /\ entry' = [via |-> "from_wic", e |-> from_wic(argb)]
    /\ UNCHANGED <<hdr, hbytes, parsed, hbytes2, argb, rgb_out, wic_out, repacked,
                   line, evars, dvars>>

ToRgb ==
    /\ entry # NoValue /\ rgb_out = NoValue
    /\ rgb_out' = [rgb |-> to_rgb(entry.e)]
    /\ UNCHANGED <<hdr, hbytes, parsed, hbytes2, argb, entry, wic_out, repacked,
                   line, evars, dvars>>

ToWic ==
    /\ entry # NoValue /\ wic_out = NoValue
    /\ wic_out' = [color |-> to_wic(entry.e)]
    /\ UNCHANGED <<hdr, hbytes, parsed, hbytes2, argb, entry, rgb_out, repacked,
                   line, evars, dvars>>

Repack ==
    /\ rgb_out # NoValue /\ repacked = NoValue
    /\ repacked' = from_rgb(rgb_out.rgb[1], rgb_out.rgb[2], rgb_out.rgb[3])
    /\ UNCHANGED <<hdr, hbytes, parsed, hbytes2, argb, entry, rgb_out, wic_out,
                   line, evars, dvars>>

EntryNext == FromRgb \/ FromWic \/ ToRgb \/ ToWic \/ Repack

SpecEntry == EntryInit /\ [][EntryNext]_vars

(***************************************************************************)
(* SpecLine: bytes_per_line on the four bit depths and on widths around    *)
(* the multiples of 8, around the u16 products' limit 8192 and at the top  *)
(* of the u16 range.                                                       *)
(***************************************************************************)
LineWidths ==
    (0..17) \cup {255, 256, 257, 8191, 8192, 8193, 16383, 16384, 16385,
                  32767, 32768, 32769, 65528, 65529, 65534, 65535}
LineBitDepths == {1, 2, 4, 8}

LineInit ==
    /\ \E w \in LineWidths, b \in LineBitDepths :
          line = [width |-> w, bit_depth |-> b]
    /\ argb = NoValue /\ entry = NoValue /\ rgb_out = NoValue /\ wic_out = NoValue
    /\ repacked = NoValue
    /\ hdr = NoValue /\ hbytes = <<>> /\ parsed = NoValue /\ hbytes2 = <<>>
    /\ EncoderIdle /\ DecoderIdle

BytesPerLine ==
    /\ "bytes" \notin DOMAIN line
    /\ line' = [width |-> line.width, bit_depth |-> line.bit_depth,
                bytes |-> bytes_per_line(line.width, line.bit_depth)]
    /\ UNCHANGED <<hdr, hbytes, parsed, hbytes2, argb, entry, rgb_out, wic_out,
                   repacked, evars, dvars>>

LineNext == BytesPerLine

SpecLine == LineInit /\ [][LineNext]_vars

(***************************************************************************)
(* Outcomes of a COM call: S_OK, an HRESULT with the message the code      *)
(* gives it, or a panic.  A panic leaves the frame's RwLock poisoned (and  *)
(* unwinds into the COM caller), so no later call on the frame runs.       *)
(***************************************************************************)
Ok == [code |-> "S_OK", msg |-> ""]
Err(code, msg) == [code |-> code, msg |-> msg]
Panic(msg) == [code |-> "panic", msg |-> msg]

\* u16 + u16 as the build computes it: the wrapped value and whether it overflowed.
add_u16(a, b) == [v |-> (a + b) % U16, ovf |-> a + b >= U16]

(***************************************************************************)
(* Inputs of the frame encoder's callers.                                  *)
(***************************************************************************)
MaxChunks == 3
MaxCommits == 2

\* Palettes (IWICPalette contents).  A 32-bit 0xAARRGGBB colour is the
\* tuple <<AA, RR, GG, BB>> of its bytes.
PalEmpty == <<>>
PalFrame2 == <<<<255, 18, 52, 86>>, <<0, 171, 205, 239>>>>
PalEncoder1 == <<<<255, 255, 68, 132>>>>
PalSource2 == <<<<255, 0, 0, 255>>, <<255, 255, 255, 0>>>>
\* WICBitmapPaletteTypeFixedHalftone256: 256 colours, fixed by WIC.
FixedHalftone256 == [i \in 1..256 |-> <<255, i - 1, (i - 1) % 64, (i * 7) % 256>>]

\* An IWICPalette argument is [colors |-> ...]; NoValue is the null pointer.
Pal(colors) == [colors |-> colors]

\* The caller's pixel buffer of `size` bytes for the k-th chunk.
PixelBuffer(k, size) == [i \in 1..size |-> (k * 32 + i) % U8]

FrameState == <<header, palette, image_data, accumulated_height>>

\* A call that returns r (an error or a panic) without touching any state.
Fail(call, r) ==
    /\ result' = r
    /\ last' = call
    /\ panicked' = (r.code = "panic")
    /\ UNCHANGED <<FrameState, parent_palette, sink, commits, overflow_checks,
                   hvars, dvars>>

\* A call that returns S_OK; the frame state is set by the caller of Done.
Done(call) ==
    /\ result' = Ok
    /\ last' = call
    /\ UNCHANGED <<panicked, overflow_checks, hvars, dvars>>

(***************************************************************************)
(* src/com/wic/encoder/mod.rs: BitmapEncoder (the parent) and FrameEncoder *)
(***************************************************************************)
\* BitmapEncoder::SetPalette
EncoderSetPalette(pal) ==
    LET call == [op |-> "EncoderSetPalette", palette |-> pal]
    IN /\ ~panicked
       /\ IF pal = NoValue THEN Fail(call, Err("E_POINTER", ""))
          ELSE /\ parent_palette' = pal
               /\ Done(call)
               /\ UNCHANGED <<FrameState, sink, commits>>

\* FrameEncoder::Initialize
Initialize ==
    LET call == [op |-> "Initialize"]
    IN /\ ~panicked
       /\ IF header # NoValue
          THEN Fail(call, Err("ERROR_ALREADY_INITIALIZED", ""))
          ELSE /\ header' = FileHeaderDefault
               /\ Done(call)
               /\ UNCHANGED <<palette, image_data, accumulated_height,
                              parent_palette, sink, commits>>

\* SetSize without the comparison with the stored size.
SetSize_overwrite(width, height) ==
    LET call == [op |-> "SetSize", width |-> width, height |-> height]
    IN /\ ~panicked
       /\ IF width >= U16 \/ height >= U16
              THEN Fail(call, Err("E_INVALIDARG", "out of range"))
          ELSE IF width = 0
              THEN Fail(call, Err("E_INVALIDARG", "width must not be 0"))
          ELSE IF height = 0
              THEN Fail(call, Err("E_INVALIDARG", "height must not be 0"))
          ELSE IF header = NoValue THEN Fail(call, Err("E_UNEXPECTED", ""))
          ELSE /\ header' = [header EXCEPT !.width = width, !.height = height]
               /\ Done(call)
               /\ UNCHANGED <<palette, image_data, accumulated_height,
                              parent_palette, sink, commits>>

\* FrameEncoder::SetSize
SetSize(width, height) ==
    LET call == [op |-> "SetSize", width |-> width, height |-> height]
    IN /\ ~panicked
       /\ IF width >= U16 \/ height >= U16
              THEN Fail(call, Err("E_INVALIDARG", "out of range"))
          ELSE IF width = 0
              THEN Fail(call, Err("E_INVALIDARG", "width must not be 0"))
          ELSE IF height = 0
              THEN Fail(call, Err("E_INVALIDARG", "height must not be 0"))
          ELSE IF header = NoValue THEN Fail(call, Err("E_UNEXPECTED", ""))
          ELSE IF \/ (header.width # 0 /\ header.width # width)
                  \/ (header.height # 0 /\ header.height # height)
              THEN Fail(call, Err("E_INVALIDARG", "Size has already been set"))
          ELSE /\ header' = [header EXCEPT !.width = width, !.height = height]
               /\ Done(call)
               /\ UNCHANGED <<palette, image_data, accumulated_height,
                              parent_palette, sink, commits>>

\* SetPixelFormat refusing a format that is not indexed, as WriteSource does.
SetPixelFormat_reject_unknown(pixelformat) ==
    \* pixelformat = "null": the null pointer
    LET known == pixelformat \in {"1bppIndexed", "2bppIndexed", "4bppIndexed",
                                  "8bppIndexed"}
        bit_depth == IF known THEN pixel_format_to_bit_depth(pixelformat) ELSE 8
        used == IF known THEN pixelformat ELSE "8bppIndexed"
        call == [op |-> "SetPixelFormat", requested |-> pixelformat,
                 pixelformat |-> pixelformat]
    IN /\ ~panicked
       /\ IF pixelformat = "null" THEN Fail(call, Err("E_POINTER", ""))
          ELSE IF header = NoValue THEN Fail(call, Err("E_UNEXPECTED", ""))
          ELSE IF ~known
              THEN Fail(call, Err("WINCODEC_ERR_UNSUPPORTEDPIXELFORMAT", ""))
          ELSE /\ header' = [header EXCEPT !.bit_depth = bit_depth]
               /\ result' = Ok
               /\ last' = [call EXCEPT !.pixelformat = used]
               /\ UNCHANGED <<palette, image_data, accumulated_height,
                              parent_palette, sink, commits, panicked,
                              overflow_checks, hvars, dvars>>

\* FrameEncoder::SetPixelFormat: `requested` is the format the caller passed,
\* `used` the format left in *pixelformat.
SetPixelFormat(pixelformat) ==
    \* pixelformat = "null": the null pointer
    LET known == pixelformat \in {"1bppIndexed", "2bppIndexed", "4bppIndexed",
                                  "8bppIndexed"}
        bit_depth == IF known THEN pixel_format_to_bit_depth(pixelformat) ELSE 8
        used == IF known THEN pixelformat ELSE "8bppIndexed"
        call == [op |-> "SetPixelFormat", requested |-> pixelformat,
                 pixelformat |-> pixelformat]
    IN /\ ~panicked
       /\ IF pixelformat = "null" THEN Fail(call, Err("E_POINTER", ""))
          ELSE IF header = NoValue THEN Fail(call, Err("E_UNEXPECTED", ""))
          ELSE /\ header' = [header EXCEPT !.bit_depth = bit_depth]
               /\ result' = Ok
               /\ last' = [call EXCEPT !.pixelformat = used]
               /\ UNCHANGED <<palette, image_data, accumulated_height,
                              parent_palette, sink, commits, panicked,
                              overflow_checks, hvars, dvars>>

\* FrameEncoder::SetPalette
SetPalette(pal) ==
    LET call == [op |-> "SetPalette", palette |-> pal]
    IN /\ ~panicked
       /\ IF pal = NoValue THEN Fail(call, Err("E_POINTER", ""))
          ELSE /\ palette' = [tag |-> "Frame", colors |-> pal.colors]
               /\ Done(call)
               /\ UNCHANGED <<header, image_data, accumulated_height,
                              parent_palette, sink, commits>>

\* WritePixels without the check that the width is set.
WritePixels_no_width_check(line_count, stride, buffer_size, pixels) ==
    LET call == [op |-> "WritePixels", line_count |-> line_count,
                 stride |-> stride, buffer_size |-> buffer_size]
        total == add_u16(accumulated_height, line_count)
    IN /\ ~panicked
       /\ Len(image_data) < MaxChunks
       /\ IF pixels = NoValue THEN Fail(call, Err("E_POINTER", ""))
          ELSE IF buffer_size < stride
              THEN Fail(call, Err("E_INVALIDARG",
                                  "Buffer size must not be smaller than stride"))
          ELSE IF line_count >= U16
              THEN Fail(call, Err("E_INVALIDARG", "line count out of range"))
          ELSE IF header = NoValue THEN Fail(call, Err("E_UNEXPECTED", ""))
          ELSE IF header.bit_depth = 0
              THEN Fail(call, Err("E_ILLEGAL_STATE_CHANGE",
                                  "Pixel format must be set before writing pixels"))
          ELSE IF total.ovf /\ overflow_checks
              THEN Fail(call, Panic("attempt to add with overflow"))
          ELSE IF total.v > header.height
              THEN Fail(call, Err("WINCODEC_ERR_CODECTOOMANYSCANLINES",
                                  "Too many scanlines"))
          ELSE /\ image_data' = Append(image_data,
                                       [data |-> pixels.bytes,
                                        stride |-> stride % U16,
                                        lines |-> line_count])
               /\ accumulated_height' = total.v
               /\ Done(call)
               /\ UNCHANGED <<header, palette, parent_palette, sink, commits>>

\* FrameEncoder::WritePixels; pixels is [bytes |-> the buffer_size bytes at the
\* pointer], or NoValue for the null pointer.
WritePixels(line_count, stride, buffer_size, pixels) ==
    LET call == [op |-> "WritePixels", line_count |-> line_count,
                 stride |-> stride, buffer_size |-> buffer_size]
        total == add_u16(accumulated_height, line_count)
    IN /\ ~panicked
       /\ Len(image_data) < MaxChunks
       /\ IF pixels = NoValue THEN Fail(call, Err("E_POINTER", ""))
          ELSE IF buffer_size < stride
              THEN Fail(call, Err("E_INVALIDARG",
                                  "Buffer size must not be smaller than stride"))
          ELSE IF line_count >= U16
              THEN Fail(call, Err("E_INVALIDARG", "line count out of range"))
          ELSE IF header = NoValue THEN Fail(call, Err("E_UNEXPECTED", ""))
          ELSE IF header.bit_depth = 0
              THEN Fail(call, Err("E_ILLEGAL_STATE_CHANGE",
                                  "Pixel format must be set before writing pixels"))
          ELSE IF header.width = 0
              THEN Fail(call, Err("E_ILLEGAL_STATE_CHANGE",
                                  "Size must be set before writing pixels"))
          ELSE IF total.ovf /\ overflow_checks
              THEN Fail(call, Panic("attempt to add with overflow"))
          ELSE IF total.v > header.height
              THEN Fail(call, Err("WINCODEC_ERR_CODECTOOMANYSCANLINES",
                                  "Too many scanlines"))
          ELSE /\ image_data' = Append(image_data,
                                       [data |-> pixels.bytes,
                                        stride |-> stride % U16,
                                        lines |-> line_count])
               /\ accumulated_height' = total.v
               /\ Done(call)
               /\ UNCHANGED <<header, palette, parent_palette, sink, commits>>

as_u16(x) == x % U16

\* WICRectExt::intersect on (self, other).  The coordinates the model draws
\* are far inside the i32 range, where the additions are exact.
intersect(self, other) ==
    LET x == Max(self.X, other.X)
        y == Max(self.Y, other.Y)
        width == Min(self.X + self.Width, other.X + other.Width) - x
        height == Min(self.Y + self.Height, other.Y + other.Height) - y
    IN IF width < 0 \/ height < 0
       THEN [X |-> 0, Y |-> 0, Width |-> 0, Height |-> 0]
       ELSE [X |-> x, Y |-> y, Width |-> width, Height |-> height]

(***************************************************************************)
(* The IWICBitmapSource handed to WriteSource (the caller's object): its   *)
(* size, resolution (in tenths of a DPI), pixel format, palette (NoValue:  *)
(* CopyPalette fails, the source has none) and the call of it that fails,  *)
(* if any.                                                                 *)
(***************************************************************************)
Source(name, w, h, dpi, pf, colors, fail) ==
    [name |-> name, width |-> w, height |-> h, dpi_x |-> dpi, dpi_y |-> 960,
     pixel_format |-> pf, palette |-> colors, fail |-> fail]

Rect(x, y, w, h) == [X |-> x, Y |-> y, Width |-> w, Height |-> h]

\* Byte j (0-based) of the source's row `row`, read from byte column x0.
SourceByte(src, row, x0, j) == (128 + 16 * row + x0 + j) % U8

\* IWICBitmapSource::CopyPixels of the source into a zeroed buffer of
\* `size` bytes: the rect (or the whole bitmap) must lie inside the bitmap
\* and fit the buffer; each row's bytes land `stride` apart.
SourceCopyPixels(src, rect, stride, size) ==
    LET r == IF rect = NoValue THEN Rect(0, 0, src.width, src.height) ELSE rect
        bd == pixel_format_to_bit_depth(src.pixel_format)
        bpl == (r.Width * bd + 7) \div 8
        inside == /\ r.X >= 0 /\ r.Y >= 0 /\ r.Width > 0 /\ r.Height > 0
                  /\ r.X + r.Width <= src.width
                  /\ r.Y + r.Height <= src.height
    IN IF src.fail = "CopyPixels" THEN [ok |-> FALSE, data |-> <<>>]
       ELSE IF ~inside THEN [ok |-> FALSE, data |-> <<>>]
       ELSE IF stride < bpl \/ size < stride * (r.Height - 1) + bpl
           THEN [ok |-> FALSE, data |-> <<>>]
       ELSE [ok |-> TRUE,
             data |-> [i \in 1..size |->
                         LET row == (i - 1) \div stride
                             j == (i - 1) % stride
                         IN IF row < r.Height /\ j < bpl
                            THEN SourceByte(src, r.Y + row, (r.X * bd) \div 8, j)
                            ELSE 0]]

\* WriteSource with the source's palette stored before its pixels are read.
WriteSource_palette_first(src, rect) ==
    LET call == [op |-> "WriteSource",
                 source |-> IF src = NoValue THEN "null" ELSE src.name,
                 rect |-> rect]
        pixel_format_bit_depth == pixel_format_to_bit_depth(src.pixel_format)
        header_width_zero == header.width = 0
        full == Rect(0, 0, src.width, src.height)
        effective_source_rect ==
            IF rect = NoValue THEN full ELSE intersect(full, rect)
        eff_width == as_u16(effective_source_rect.Width)
        eff_height == as_u16(effective_source_rect.Height)
        total == add_u16(accumulated_height, eff_height)
        bpl == bytes_per_line(eff_width, pixel_format_bit_depth)
        padded == add_u16(bpl, 3)
        stride == padded.v - (padded.v % 4)
        size == stride * effective_source_rect.Height
        copied == SourceCopyPixels(src, rect, stride, size)
        base == IF header_width_zero THEN <<>> ELSE image_data
        acc == IF header_width_zero THEN 0 ELSE accumulated_height
    IN /\ ~panicked
       /\ Len(image_data) < MaxChunks
       /\ IF src = NoValue THEN Fail(call, Err("E_POINTER", ""))
          ELSE IF rect # NoValue /\ (rect.X < 0 \/ rect.Y < 0 \/ rect.Width <= 0
                                     \/ rect.Height <= 0)
              THEN Fail(call, Err("E_INVALIDARG", "Invalid rect"))
          ELSE IF rect # NoValue /\ (rect.Width > 65535 \/ rect.Height > 65535)
              THEN Fail(call, Err("E_INVALIDARG", "Rect too large"))
          ELSE IF src.fail \in {"GetSize", "GetResolution", "GetPixelFormat"}
              THEN Fail(call, Err("E_FAIL", src.fail))
          ELSE IF \/ src.dpi_x - 960 > 5 \/ 960 - src.dpi_x > 5
                  \/ src.dpi_y - 960 > 5 \/ 960 - src.dpi_y > 5
              THEN Fail(call, Err("WINCODEC_ERR_UNSUPPORTEDOPERATION",
                                  "DPI must be 96"))
          ELSE IF pixel_format_bit_depth = 0
              THEN Fail(call, Err("WINCODEC_ERR_UNSUPPORTEDOPERATION",
                                  "Invalid pixel format"))
          ELSE IF header = NoValue THEN Fail(call, Err("E_UNEXPECTED", ""))
          ELSE IF header.bit_depth # 0 /\ header.bit_depth # pixel_format_bit_depth
              THEN Fail(call, Err("E_INVALIDARG",
                                  "Mismatch between pixel format and bit depth"))
          ELSE IF ~header_width_zero /\ header.width # eff_width
              THEN Fail(call, Err("WINCODEC_ERR_SOURCERECTDOESNOTMATCHDIMENSIONS",
                                  "Width mismatch between source and frame"))
          ELSE IF ~header_width_zero /\ total.ovf /\ overflow_checks
              THEN Fail(call, Panic("attempt to add with overflow"))
          ELSE IF ~header_width_zero /\ total.v > header.height
              THEN Fail(call, Err("WINCODEC_ERR_CODECTOOMANYSCANLINES",
                                  "Too many scanlines"))
          ELSE IF palette = NoValue /\ src.palette = NoValue
              THEN Fail(call, Err("WINCODEC_ERR_PALETTEUNAVAILABLE", ""))
          ELSE IF padded.ovf /\ overflow_checks
              THEN Fail(call, Panic("attempt to add with overflow"))
          ELSE IF ~copied.ok
              THEN /\ result' = Err("E_FAIL", "CopyPixels")
                   /\ last' = call
                   /\ palette' = IF palette = NoValue
                                 THEN [tag |-> "BitmapSource",
                                       colors |-> src.palette.colors]
                                 ELSE palette
                   /\ UNCHANGED <<header, image_data, accumulated_height,
                                  parent_palette, sink, commits, panicked,
                                  overflow_checks, hvars, dvars>>
          ELSE /\ image_data' = Append(base, [data |-> copied.data,
                                              stride |-> stride,
                                              lines |-> eff_height])
               /\ header' = IF header_width_zero
                            THEN [header EXCEPT !.width = eff_width,
                                                !.height = eff_height,
                                                !.bit_depth = pixel_format_bit_depth]
                            ELSE header
               /\ palette' = IF palette = NoValue
                             THEN [tag |-> "BitmapSource",
                                   colors |-> src.palette.colors]
                             ELSE palette
               /\ accumulated_height' = add_u16(acc, eff_height).v
               /\ Done(call @@ [header_width_zero |-> header_width_zero])
               /\ UNCHANGED <<parent_palette, sink, commits>>

\* FrameEncoder::WriteSource
WriteSource(src, rect) ==
    LET call == [op |-> "WriteSource",
                 source |-> IF src = NoValue THEN "null" ELSE src.name,
                 rect |-> rect]
        pixel_format_bit_depth == pixel_format_to_bit_depth(src.pixel_format)
        header_width_zero == header.width = 0
        full == Rect(0, 0, src.width, src.height)
        effective_source_rect ==
            IF rect = NoValue THEN full ELSE intersect(full, rect)
        eff_width == as_u16(effective_source_rect.Width)
        eff_height == as_u16(effective_source_rect.Height)
        total == add_u16(accumulated_height, eff_height)
        bpl == bytes_per_line(eff_width, pixel_format_bit_depth)
        padded == add_u16(bpl, 3)
        stride == padded.v - (padded.v % 4)
        size == stride * effective_source_rect.Height
        copied == SourceCopyPixels(src, rect, stride, size)
        base == IF header_width_zero THEN <<>> ELSE image_data
        acc == IF header_width_zero THEN 0 ELSE accumulated_height
    IN /\ ~panicked
       /\ Len(image_data) < MaxChunks
       /\ IF src = NoValue THEN Fail(call, Err("E_POINTER", ""))
          ELSE IF rect # NoValue /\ (rect.X < 0 \/ rect.Y < 0 \/ rect.Width <= 0
                                     \/ rect.Height <= 0)
              THEN Fail(call, Err("E_INVALIDARG", "Invalid rect"))
          ELSE IF rect # NoValue /\ (rect.Width > 65535 \/ rect.Height > 65535)
              THEN Fail(call, Err("E_INVALIDARG", "Rect too large"))
          ELSE IF src.fail \in {"GetSize", "GetResolution", "GetPixelFormat"}
              THEN Fail(call, Err("E_FAIL", src.fail))
          ELSE IF \/ src.dpi_x - 960 > 5 \/ 960 - src.dpi_x > 5
                  \/ src.dpi_y - 960 > 5 \/ 960 - src.dpi_y > 5
              THEN Fail(call, Err("WINCODEC_ERR_UNSUPPORTEDOPERATION",
                                  "DPI must be 96"))
          ELSE IF pixel_format_bit_depth = 0
              THEN Fail(call, Err("WINCODEC_ERR_UNSUPPORTEDOPERATION",
                                  "Invalid pixel format"))
          ELSE IF header = NoValue THEN Fail(call, Err("E_UNEXPECTED", ""))
          ELSE IF header.bit_depth # 0 /\ header.bit_depth # pixel_format_bit_depth
              THEN Fail(call, Err("E_INVALIDARG",
                                  "Mismatch between pixel format and bit depth"))
          ELSE IF ~header_width_zero /\ header.width # eff_width
              THEN Fail(call, Err("WINCODEC_ERR_SOURCERECTDOESNOTMATCHDIMENSIONS",
                                  "Width mismatch between source and frame"))
          ELSE IF ~header_width_zero /\ total.ovf /\ overflow_checks
              THEN Fail(call, Panic("attempt to add with overflow"))
          ELSE IF ~header_width_zero /\ total.v > header.height
              THEN Fail(call, Err("WINCODEC_ERR_CODECTOOMANYSCANLINES",
                                  "Too many scanlines"))
          ELSE IF palette = NoValue /\ src.palette = NoValue
              THEN Fail(call, Err("WINCODEC_ERR_PALETTEUNAVAILABLE", ""))
          ELSE IF padded.ovf /\ overflow_checks
              THEN Fail(call, Panic("attempt to add with overflow"))
          ELSE IF ~copied.ok THEN Fail(call, Err("E_FAIL", "CopyPixels"))
          ELSE /\ image_data' = Append(base, [data |-> copied.data,
                                              stride |-> stride,
                                              lines |-> eff_height])
               /\ header' = IF header_width_zero
                            THEN [header EXCEPT !.width = eff_width,
                                                !.height = eff_height,
                                                !.bit_depth = pixel_format_bit_depth]
                            ELSE header
               /\ palette' = IF palette = NoValue
                             THEN [tag |-> "BitmapSource",
                                   colors |-> src.palette.colors]
                             ELSE palette
               /\ accumulated_height' = add_u16(acc, eff_height).v
               /\ Done(call @@ [header_width_zero |-> header_width_zero])
               /\ UNCHANGED <<parent_palette, sink, commits>>

\* Iterator::sum::<u16>() over the chunks' line counts.
RECURSIVE SumLines(_)
SumLines(chunks) ==
    IF chunks = <<>> THEN [v |-> 0, ovf |-> FALSE]
    ELSE LET rest == SumLines(SubSeq(chunks, 1, Len(chunks) - 1))
             s == add_u16(rest.v, chunks[Len(chunks)].lines)
         IN [v |-> s.v, ovf |-> rest.ovf \/ s.ovf]

\* What Commit's loop body writes for one chunk: the bytes, and whether it
\* panics (chunks_exact(0), or line[..bytes_per_line] beyond the line).
ChunkOutput(chunk, bpl) ==
    IF chunk.stride = bpl THEN [bytes |-> chunk.data, panic |-> FALSE]
    ELSE IF chunk.stride = 0 THEN [bytes |-> <<>>, panic |-> TRUE]
    ELSE LET n == Len(chunk.data) \div chunk.stride
         IN IF n > 0 /\ bpl > chunk.stride THEN [bytes |-> <<>>, panic |-> TRUE]
            ELSE [bytes |-> [i \in 1..(n * bpl) |->
                               chunk.data[((i - 1) \div bpl) * chunk.stride
                                          + ((i - 1) % bpl) + 1]],
                  panic |-> FALSE]

\* The loop over inner.image_data: the bytes written until its end or until
\* the first chunk that panics.
RECURSIVE WriteChunks(_, _)
WriteChunks(chunks, bpl) ==
    IF chunks = <<>> THEN [bytes |-> <<>>, panic |-> FALSE]
    ELSE LET first == ChunkOutput(Head(chunks), bpl)
             rest == WriteChunks(Tail(chunks), bpl)
         IN IF first.panic THEN first
            ELSE [bytes |-> first.bytes \o rest.bytes, panic |-> rest.panic]

\* The match on header.bit_depth in Commit; 255 stands for unreachable!().
color_depth_register(bit_depth) ==
    CASE bit_depth = 1 -> 0
      [] bit_depth = 2 -> 1
      [] bit_depth = 4 -> 2
      [] bit_depth = 8 -> 3
      [] OTHER -> 255

\* palette_to_use with the source's palette taken before the encoder's.
ResolvePalette_source_first(frame_palette, encoder_palette) ==
    IF frame_palette # NoValue THEN frame_palette.colors
    ELSE IF encoder_palette # NoValue THEN encoder_palette.colors
    ELSE FixedHalftone256

\* The palette Commit serializes (palette_to_use).
ResolvePalette(frame_palette, encoder_palette) ==
    IF frame_palette # NoValue /\ frame_palette.tag = "Frame"
        THEN frame_palette.colors
    ELSE IF frame_palette # NoValue
        THEN IF encoder_palette # NoValue THEN encoder_palette.colors
             ELSE frame_palette.colors
    ELSE IF encoder_palette # NoValue THEN encoder_palette.colors
    ELSE FixedHalftone256

\* bmx_palette[..actual_colors] as bytes.
PaletteBytes(colors) ==
    [i \in 1..(PaletteEntrySize * Len(colors)) |->
        entry_memory(from_wic(colors[(i + 1) \div 2]))[2 - (i % 2)]]

\* The completed header with pal_used saturated at 255.
CompleteHeader_saturating(h, actual_colors) ==
    [h EXCEPT !.vera_color_depth_register = color_depth_register(h.bit_depth),
              !.pal_used = Min(actual_colors, 255),
              !.data_start = (HeaderSize + PaletteEntrySize * actual_colors) % U16]

\* The header as Commit completes it for a palette of actual_colors colours.
CompleteHeader(h, actual_colors) ==
    [h EXCEPT !.vera_color_depth_register = color_depth_register(h.bit_depth),
              !.pal_used = IF actual_colors = 256 THEN 0 ELSE actual_colors % U8,
              !.data_start = (HeaderSize + PaletteEntrySize * actual_colors) % U16]

\* FrameEncoder::Commit.  stream_ok = FALSE: the stream refuses the first write.
Commit(stream_ok) ==
    LET call == [op |-> "Commit", stream_ok |-> stream_ok]
        lines == SumLines(image_data)
        colors == ResolvePalette(palette, parent_palette)
        completed == CompleteHeader(header, Len(colors))
        bpl == bytes_per_line(completed.width, completed.bit_depth)
        pixels == WriteChunks(image_data, bpl)
    IN /\ ~panicked
       /\ commits < MaxCommits
       /\ IF header = NoValue THEN Fail(call, Err("E_UNEXPECTED", ""))
          ELSE IF header.bit_depth = 0
              THEN Fail(call, Err("E_ILLEGAL_STATE_CHANGE",
                                  "Pixel format must be set before committing"))
          ELSE IF header.width = 0
              THEN Fail(call, Err("WINCODEC_ERR_UNEXPECTEDSIZE",
                                  "Size must be set before committing"))
          ELSE IF lines.ovf /\ overflow_checks
              THEN Fail(call, Panic("attempt to add with overflow"))
          ELSE IF lines.v # header.height
              THEN Fail(call, Err("WINCODEC_ERR_UNEXPECTEDSIZE",
                                  "Not enough scanlines written"))
          ELSE IF color_depth_register(header.bit_depth) = 255
              THEN Fail(call, Panic("unreachable"))
          ELSE /\ header' = completed
               /\ last' = call
               /\ UNCHANGED <<palette, image_data, accumulated_height,
                              parent_palette, overflow_checks, hvars, dvars>>
               /\ IF validate(completed) # "Ok"
                  THEN /\ result' = Panic("assertion failed: header.validate().is_ok()")
                       /\ panicked' = TRUE
                       /\ UNCHANGED <<sink, commits>>
                  ELSE IF ~stream_ok
                  THEN /\ result' = Err("STG_E_MEDIUMFULL", "")
                       /\ UNCHANGED <<sink, commits, panicked>>
                  ELSE /\ sink' = sink \o header_memory(completed)
                                       \o PaletteBytes(colors) \o pixels.bytes
                       /\ IF pixels.panic
                          THEN /\ result' = Panic("chunk")
                               /\ panicked' = TRUE
                               /\ UNCHANGED commits
                          ELSE /\ result' = Ok
                               /\ commits' = commits + 1
                               /\ UNCHANGED panicked

EncoderInit ==
    /\ header = NoValue /\ palette = NoValue /\ image_data = <<>>
    /\ accumulated_height = 0 /\ parent_palette = NoValue /\ sink = <<>>
    /\ result = NoValue /\ last = NoValue /\ commits = 0
    /\ panicked = FALSE
    /\ overflow_checks \in BOOLEAN
    /\ HeaderIdle /\ DecoderIdle

(***************************************************************************)
(* One step of the frame encoder's caller, its arguments drawn from the    *)
(* input sets I: sizes <<width, height>>, formats, frame_palettes,         *)
(* encoder_palettes, pixels <<line_count, stride, buffer_size, non-null>>, *)
(* sources <<source, rect>> and stream_ok.                                 *)
(***************************************************************************)
EncoderStep(I) ==
    \/ Initialize
    \/ \E a \in I.sizes : SetSize(a[1], a[2])
    \/ \E pf \in I.formats : SetPixelFormat(pf)
    \/ \E pal \in I.frame_palettes : SetPalette(pal)
    \/ \E pal \in I.encoder_palettes : EncoderSetPalette(pal)
    \/ \E a \in I.pixels :
          WritePixels(a[1], a[2], a[3],
                      IF a[4] THEN [bytes |-> PixelBuffer(Len(image_data) + 1, a[3])]
                      ELSE NoValue)
    \/ \E sr \in I.sources : WriteSource(sr[1], sr[2])
    \/ \E ok \in I.stream_ok : Commit(ok)

S4x2 == Source("s4x2", 4, 2, 960, "8bppIndexed", Pal(PalSource2), "")
S4x1 == Source("s4x1", 4, 1, 964, "8bppIndexed", Pal(PalSource2), "")
SDpi97 == Source("dpi97", 4, 2, 970, "8bppIndexed", Pal(PalSource2), "")

\* Spec: a 4x2 or 4x1 frame, written by rows or from a source, with packed,
\* padded, short and too narrow pixel buffers, line counts at the u16 limits
\* and palettes of 0, 2 and 256 colours.
SpecInputs ==
    [sizes |-> {<<0, 2>>, <<4, 2>>},
     formats |-> {"8bppIndexed", "24bppBGR", "null"},
     frame_palettes |-> {Pal(PalEmpty), Pal(PalFrame2), NoValue},
     encoder_palettes |-> {NoValue},
     pixels |-> {<<1, 4, 4, TRUE>>, <<2, 4, 8, TRUE>>, <<2, 4, 4, TRUE>>,
                 <<1, 8, 8, TRUE>>, <<1, 2, 2, TRUE>>, <<1, 8, 4, TRUE>>,
                 <<65535, 4, 4, TRUE>>, <<65536, 4, 4, TRUE>>,
                 <<1, 4, 4, FALSE>>},
     sources |-> {<<S4x2, NoValue>>, <<S4x1, NoValue>>, <<SDpi97, NoValue>>,
                  <<NoValue, NoValue>>},
     stream_ok |-> BOOLEAN]

EncoderNext == EncoderStep(SpecInputs)

Spec == EncoderInit /\ [][EncoderNext]_vars

(***************************************************************************)
(* src/com/wic/decoder/mod.rs: BitmapDecoder over an input IStream, and    *)
(* the CopyPixels of its frame.  The input stream is                       *)
(*   file = [bytes, position, short_read]:                                 *)
(* its content, the position it is handed over at, and the HRESULT its     *)
(* Read gives when fewer bytes than asked for are left (IStream allows     *)
(* S_FALSE and S_OK with a smaller count).  A read or a rectangle height   *)
(* is a small non-negative number in every input of the model, so that the *)
(* u32 products of CopyPixels are exact.                                   *)
(***************************************************************************)
MaxCalls == 2

\* A call on the decoder that returns r and leaves decoder and stream alone.
DecoderFail(call, r) ==
    /\ dresult' = r
    /\ dlast' = call
    /\ UNCHANGED <<file, decoder, pos, dest, calls, threads, hvars, evars>>

\* IStream::Read of n bytes at offset `at` of `bytes`: what is delivered and
\* the HRESULT.
StreamRead(bytes, at, n) ==
    LET k == Max(0, Min(n, Len(bytes) - at))
    IN [bytes |-> SubSeq(bytes, at + 1, at + k),
        hr |-> IF k = n THEN "S_OK" ELSE file.short_read]

\* The bytes an IWICStream made by InitializeFromIStreamRegion(stream,
\* offset, size) can deliver: its position 0 is `offset` of the stream.
Region(d) ==
    SubSeq(file.bytes, d.region_offset + 1,
           Min(Len(file.bytes), d.region_offset + d.region_size))

\* A buffer of n bytes, zeroed, with `data` read into its start.
ZeroFilled(data, n) == [i \in 1..n |-> IF i <= Len(data) THEN data[i] ELSE 0]

\* FileHeader::from_stream at the stream's position: [ok, header], or
\* [ok, code, msg].
from_stream ==
    LET r == StreamRead(file.bytes, file.position, HeaderSize)
        p == from_bytes(ZeroFilled(r.bytes, HeaderSize))
    IN IF r.hr # "S_OK" THEN [ok |-> FALSE, code |-> "E_UNEXPECTED", msg |-> ""]
       ELSE IF ~p.ok
           THEN [ok |-> FALSE, code |-> "WINCODEC_ERR_BADHEADER", msg |-> p.err]
       ELSE p

\* BitmapDecoder::QueryCapability; the StreamPositionPreserver puts the
\* stream back where it was.
QueryCapability(stream) ==
    LET call == [op |-> "QueryCapability", capability |-> 0]
        h == from_stream
    IN IF stream = NoValue THEN DecoderFail(call, Err("E_INVALIDARG", ""))
       ELSE IF ~h.ok THEN DecoderFail(call, Err(h.code, h.msg))
       ELSE /\ dresult' = Ok
            /\ dlast' = [call EXCEPT
                           !.capability = IF h.header.compressed = 0 THEN 6 ELSE 0]
            /\ UNCHANGED <<file, decoder, pos, dest, calls, threads, hvars, evars>>

\* BitmapDecoder::Initialize
DecoderInitialize(stream) ==
    LET call == [op |-> "Initialize"]
        begin_position == file.position
        h == from_stream
    IN IF stream = NoValue THEN DecoderFail(call, Err("E_INVALIDARG", ""))
       ELSE IF decoder # NoValue
           THEN DecoderFail(call, Err("ERROR_ALREADY_INITIALIZED", ""))
       ELSE IF ~h.ok THEN DecoderFail(call, Err(h.code, h.msg))
       ELSE LET hd == h.header
                image_size == hd.data_start
                                  + bytes_per_line(hd.width, hd.bit_depth) * hd.height
                d == [header |-> hd, region_offset |-> file.position,
                      region_size |-> image_size]
                n == palette_entry_count(hd)
                r == StreamRead(Region(d), HeaderSize, PaletteEntrySize * n)
                raw == ZeroFilled(r.bytes, PaletteEntrySize * n)
                palette_entries == [i \in 1..n |->
                                       [gb |-> raw[2 * i - 1], r |-> raw[2 * i]]]
            IN IF r.hr # "S_OK" THEN DecoderFail(call, Err("E_UNEXPECTED", ""))
               ELSE /\ decoder' = [header |-> hd,
                                  region_offset |-> d.region_offset,
                                  region_size |-> d.region_size,
                                  palette |-> [i \in 1..n |-> to_wic(palette_entries[i])]]
                    /\ pos' = begin_position + hd.data_start
                    /\ dresult' = Ok
                    /\ dlast' = call
                    /\ UNCHANGED <<file, dest, calls, threads, hvars, evars>>

\* The caller's destination buffer as it is handed to CopyPixels.
DestBuffer(buffer_size) == [bytes |-> [i \in 1..buffer_size |-> 170], overrun |-> FALSE]

\* stream_read_exact(stream, from_raw_parts_mut(buffer + at, n)): the bytes
\* the stream has are stored at buffer + at, the stream advances, and
\* `overrun` records a store past buffer_size.
ReadInto(st, at, n) ==
    LET r == StreamRead(Region(decoder), st.pos, n)
        k == Len(r.bytes)
    IN [pos |-> st.pos + k,
        bytes |-> [j \in 1..Len(st.bytes) |->
                      IF j > at /\ j <= at + k THEN r.bytes[j - at] ELSE st.bytes[j]],
        overrun |-> st.overrun \/ (k > 0 /\ at + k > Len(st.bytes)),
        hr |-> r.hr]

\* The row loops of CopyPixels from row i on: with a rectangle `skip` is
\* rect.X, read into the destination before every row but the first; with
\* none it is 0.  The loop ends at the first failing read.
RECURSIVE CopyRows(_, _, _, _, _, _)
CopyRows(st, i, rows, skip, bpl, stride) ==
    IF i >= rows THEN st
    ELSE LET s1 == IF i > 0 /\ skip > 0 THEN ReadInto(st, i * stride, skip) ELSE st
         IN IF s1.hr # "S_OK" THEN s1
            ELSE LET s2 == ReadInto(s1, i * stride, bpl)
                 IN IF s2.hr # "S_OK" THEN s2
                    ELSE CopyRows(s2, i + 1, rows, skip, bpl, stride)

\* A CopyPixels call that returns r before it touches stream or buffer.
CopyFail(call, r, buffer) ==
    /\ dresult' = r
    /\ dlast' = call
    /\ dest' = buffer
    /\ UNCHANGED <<file, decoder, pos, threads, hvars, evars>>

\* A WICRect.
WICRect(x, y, w, h) == [X |-> x, Y |-> y, Width |-> w, Height |-> h]

\* CopyPixels with the stride compared with the rectangle's row length.
CopyPixels_rect_stride(rect, stride, buffer_size) ==
    /\ calls < MaxCalls
    /\ calls' = calls + 1
    /\ LET call == [op |-> "CopyPixels", rect |-> rect, stride |-> stride,
                    buffer_size |-> buffer_size, pos |-> pos]
           buffer == DestBuffer(buffer_size)
       IN IF decoder = NoValue
              THEN CopyFail(call, Err("E_UNEXPECTED", ""), buffer)
          ELSE LET h == decoder.header
                   bpl == bytes_per_line(h.width, h.bit_depth)
                   min_buffer_size ==
                       IF rect # NoValue
                       THEN bytes_per_line(rect.Width % U16, h.bit_depth) * rect.Height
                       ELSE bpl * h.height
               IN IF (stride % U16) < (IF rect # NoValue
                                       THEN bytes_per_line(rect.Width % U16, h.bit_depth)
                                       ELSE bpl)
                      THEN CopyFail(call, Err("WINCODEC_ERR_INSUFFICIENTBUFFER", ""), buffer)
                  ELSE IF buffer_size < min_buffer_size
                      THEN CopyFail(call, Err("WINCODEC_ERR_INSUFFICIENTBUFFER", ""), buffer)
                  ELSE IF rect # NoValue
                          /\ (\/ rect.X < 0
                              \/ rect.Y < 0
                              \/ rect.X + rect.Width > h.width
                              \/ rect.Y + rect.Height > h.height)
                      THEN CopyFail(call, Err("E_INVALIDARG", ""), buffer)
                  ELSE LET start == IF rect # NoValue
                                    THEN h.data_start + bpl * rect.Y + rect.X
                                    ELSE pos
                           st0 == [pos |-> start, bytes |-> buffer.bytes,
                                   overrun |-> FALSE, hr |-> "S_OK"]
                           st == IF rect # NoValue
                                 THEN CopyRows(st0, 0, rect.Height, rect.X,
                                               bytes_per_line(rect.Width % U16, h.bit_depth),
                                               stride)
                                 ELSE CopyRows(st0, 0, h.height, 0, bpl, stride)
                       IN /\ pos' = st.pos
                          /\ dest' = [bytes |-> st.bytes, overrun |-> st.overrun]
                          /\ dresult' = IF st.hr = "S_OK" THEN Ok
                                        ELSE Err("E_UNEXPECTED", "")
                          /\ dlast' = call
                          /\ UNCHANGED <<file, decoder, threads, hvars, evars>>

\* FrameDecoder::CopyPixels; rect = NoValue is the null pointer.
CopyPixels(rect, stride, buffer_size) ==
    /\ calls < MaxCalls
    /\ calls' = calls + 1
    /\ LET call == [op |-> "CopyPixels", rect |-> rect, stride |-> stride,
                    buffer_size |-> buffer_size, pos |-> pos]
           buffer == DestBuffer(buffer_size)
       IN IF decoder = NoValue
              THEN CopyFail(call, Err("E_UNEXPECTED", ""), buffer)
          ELSE LET h == decoder.header
                   bpl == bytes_per_line(h.width, h.bit_depth)
                   min_buffer_size ==
                       IF rect # NoValue
                       THEN bytes_per_line(rect.Width % U16, h.bit_depth) * rect.Height
                       ELSE bpl * h.height
               IN IF (stride % U16) < bpl
                      THEN CopyFail(call, Err("WINCODEC_ERR_INSUFFICIENTBUFFER", ""), buffer)
                  ELSE IF buffer_size < min_buffer_size
                      THEN CopyFail(call, Err("WINCODEC_ERR_INSUFFICIENTBUFFER", ""), buffer)
                  ELSE IF rect # NoValue
                          /\ (\/ rect.X < 0
                              \/ rect.Y < 0
                              \/ rect.X + rect.Width > h.width
                              \/ rect.Y + rect.Height > h.height)
                      THEN CopyFail(call, Err("E_INVALIDARG", ""), buffer)
                  ELSE LET start == IF rect # NoValue
                                    THEN h.data_start + bpl * rect.Y + rect.X
                                    ELSE pos
                           st0 == [pos |-> start, bytes |-> buffer.bytes,
                                   overrun |-> FALSE, hr |-> "S_OK"]
                           st == IF rect # NoValue
                                 THEN CopyRows(st0, 0, rect.Height, rect.X,
                                               bytes_per_line(rect.Width % U16, h.bit_depth),
                                               stride)
                                 ELSE CopyRows(st0, 0, h.height, 0, bpl, stride)
                       IN /\ pos' = st.pos
                          /\ dest' = [bytes |-> st.bytes, overrun |-> st.overrun]
                          /\ dresult' = IF st.hr = "S_OK" THEN Ok
                                        ELSE Err("E_UNEXPECTED", "")
                          /\ dlast' = call
                          /\ UNCHANGED <<file, decoder, threads, hvars, evars>>

(***************************************************************************)
(* Input streams of the decoder: 8-bit images with a 2-entry palette, as   *)
(* the encoder's Commit lays a file out (header, palette, rows).           *)
(***************************************************************************)
ImageHeader(width, height, compressed) ==
    [FileHeaderDefault EXCEPT !.bit_depth = 8, !.vera_color_depth_register = 3,
                              !.width = width, !.height = height, !.pal_used = 2,
                              !.data_start = HeaderSize + 2 * PaletteEntrySize,
                              !.compressed = compressed]

ImageBytes(h, pixels) ==
    header_memory(h)
    \o entry_memory(from_wic(PalFrame2[1])) \o entry_memory(from_wic(PalFrame2[2]))
    \o pixels

Pixels2x2 == <<0, 1, 1, 0>>
Pixels3x3 == <<10, 11, 12, 20, 21, 22, 30, 31, 32>>

\* The streams: the 2x2 and the 3x3 image, the 3x3 image marked compressed,
\* the 3x3 image embedded after two leading bytes and before two trailing
\* ones, and a stream that does not start with the BMX magic.
DecoderStreams ==
    {[bytes |-> ImageBytes(ImageHeader(2, 2, 0), Pixels2x2), position |-> 0],
     [bytes |-> ImageBytes(ImageHeader(3, 3, 0), Pixels3x3), position |-> 0],
     [bytes |-> ImageBytes(ImageHeader(3, 3, 1), Pixels3x3), position |-> 0],
     [bytes |-> <<7, 7>> \o ImageBytes(ImageHeader(3, 3, 0), Pixels3x3) \o <<9, 9>>,
      position |-> 2],
     [bytes |-> <<65>> \o Tail(ImageBytes(ImageHeader(2, 2, 0), Pixels2x2)),
      position |-> 0]}

DecoderInit ==
    /\ \E s \in DecoderStreams, sr \in {"S_FALSE", "S_OK"} :
          file = [bytes |-> s.bytes, position |-> s.position, short_read |-> sr]
    /\ decoder = NoValue /\ pos = 0 /\ dest = NoValue
    /\ dresult = NoValue /\ dlast = NoValue /\ calls = 0 /\ threads = NoValue
    /\ HeaderIdle /\ EncoderIdle

(***************************************************************************)
(* One step of the decoder's caller, its arguments drawn from the input    *)
(* sets I: streams (TRUE for the stream, FALSE for a null pointer) and     *)
(* copies <<rect, stride, buffer_size>>.                                   *)
(***************************************************************************)
DecoderStep(I) ==
    \/ \E s \in I.streams : QueryCapability(IF s THEN file ELSE NoValue)
    \/ \E s \in I.streams : DecoderInitialize(IF s THEN file ELSE NoValue)
    \/ \E c \in I.copies : CopyPixels(c[1], c[2], c[3])

\* SpecDecoder: whole-image and rectangle copies, with rectangles on the
\* left edge, on the right edge, in the middle and outside, row strides
\* from 1 to 4 and buffers from 1 to 12 bytes.
DecoderInputs ==
    [streams |-> BOOLEAN,
     copies |-> {NoValue, WICRect(1, 0, 1, 2), WICRect(0, 0, 1, 2),
                 WICRect(0, 0, 2, 2), WICRect(1, 1, 1, 1), WICRect(2, 2, 2, 2),
                 WICRect(-1, 0, 1, 1)}
                \X {1, 2, 3, 4} \X {1, 2, 4, 9, 12}]

DecoderNext == DecoderStep(DecoderInputs)

SpecDecoder == DecoderInit /\ [][DecoderNext]_vars

(***************************************************************************)
(* SpecPalette: a 4x1 frame of each bit depth, written by rows or from a   *)
(* source, with a palette of 0 or 2 colours set on the frame, one of 1     *)
(* colour on the encoder, both or neither, in every order.                 *)
(***************************************************************************)
PaletteInputs ==
    [sizes |-> {<<4, 1>>},
     formats |-> {"1bppIndexed", "2bppIndexed", "4bppIndexed", "8bppIndexed"},
     frame_palettes |-> {Pal(PalEmpty), Pal(PalFrame2)},
     encoder_palettes |-> {Pal(PalEncoder1)},
     pixels |-> {<<1, 4, 4, TRUE>>},
     sources |-> {<<S4x1, NoValue>>},
     stream_ok |-> {TRUE}]

PaletteNext == EncoderStep(PaletteInputs)

SpecPalette == EncoderInit /\ [][PaletteNext]_vars

(***************************************************************************)
(* SpecSize: sizes with a zero width, a zero height, equal and differing   *)
(* nonzero values and a width beyond 16 bits, on a frame that is sized by  *)
(* SetSize or by a 4x1 or 4x2 source; rows written with a well-formed      *)
(* buffer, a null buffer, a buffer shorter than the stride and a line      *)
(* count beyond 16 bits, before and after size and format are set.         *)
(***************************************************************************)
SizeInputs ==
    [sizes |-> {<<0, 2>>, <<4, 0>>, <<4, 2>>, <<4, 1>>, <<2, 2>>, <<65536, 2>>},
     formats |-> {"8bppIndexed"},
     frame_palettes |-> {Pal(PalFrame2)},
     encoder_palettes |-> {NoValue},
     pixels |-> {<<1, 4, 4, TRUE>>, <<0, 4, 4, TRUE>>, <<1, 4, 4, FALSE>>,
                 <<1, 8, 4, TRUE>>, <<65536, 4, 4, TRUE>>},
     sources |-> {<<S4x1, NoValue>>, <<S4x2, NoValue>>},
     stream_ok |-> {TRUE}]

SizeNext == EncoderStep(SizeInputs)

SpecSize == EncoderInit /\ [][SizeNext]_vars

(***************************************************************************)
(* SpecSource: WriteSource on a frame sized 4x1 or 4x65535 by SetSize, or  *)
(* by the first source, with up to 65535 rows written before it; sources   *)
(* that match, that are too narrow, too tall or wider than 16 bits, rects  *)
(* inside, outside, invalid and oversized, a resolution of 97 DPI, a       *)
(* format that is not indexed, a 1-bit source, a source without palette    *)
(* and sources whose GetSize or CopyPixels fails.                          *)
(***************************************************************************)
S2x1 == Source("s2x1", 2, 1, 960, "8bppIndexed", Pal(PalSource2), "")
S65540x1 == Source("s65540x1", 65540, 1, 960, "8bppIndexed", Pal(PalSource2), "")
SBgr == Source("bgr", 4, 1, 960, "24bppBGR", Pal(PalSource2), "")
S1bpp == Source("s1bpp", 4, 1, 960, "1bppIndexed", Pal(PalSource2), "")
SNoPalette == Source("nopalette", 4, 1, 960, "8bppIndexed", NoValue, "")
SNoSize == Source("nosize", 4, 1, 960, "8bppIndexed", Pal(PalSource2), "GetSize")
SNoPixels == Source("nopixels", 4, 1, 960, "8bppIndexed", Pal(PalSource2), "CopyPixels")

Sources == {S4x2, S4x1, SDpi97, S2x1, S65540x1, SBgr, S1bpp,
            SNoPalette, SNoSize, SNoPixels}

SourceInputs ==
    [sizes |-> {<<4, 1>>, <<4, 65535>>},
     formats |-> {"8bppIndexed"},
     frame_palettes |-> {Pal(PalFrame2)},
     encoder_palettes |-> {NoValue},
     pixels |-> {<<1, 4, 4, TRUE>>, <<65535, 4, 4, TRUE>>},
     sources |-> {<<s, NoValue>> : s \in Sources}
                 \cup {<<NoValue, NoValue>>,
                       <<S4x2, Rect(0, 1, 4, 1)>>, <<S4x2, Rect(0, 0, 2, 1)>>,
                       <<S4x2, Rect(2, 1, 4, 4)>>, <<S4x2, Rect(-1, 0, 4, 1)>>,
                       <<S4x2, Rect(0, 0, 4, 0)>>, <<S4x2, Rect(0, 0, 65536, 1)>>},
     stream_ok |-> {TRUE}]

SourceNext == EncoderStep(SourceInputs)

SpecSource == EncoderInit /\ [][SourceNext]_vars

(***************************************************************************)
(* The frame encoder called with each indexed pixel format, two formats    *)
(* that are not indexed, and the null pointer.                             *)
(***************************************************************************)
FormatInputs ==
    [sizes |-> {<<4, 1>>},
     formats |-> {"1bppIndexed", "2bppIndexed", "4bppIndexed", "8bppIndexed",
                  "24bppBGR", "32bppBGRA", "null"},
     frame_palettes |-> {Pal(PalFrame2)},
     encoder_palettes |-> {NoValue},
     pixels |-> {<<1, 4, 4, TRUE>>},
     sources |-> {<<S4x1, NoValue>>},
     stream_ok |-> {TRUE}]

FormatNext == EncoderStep(FormatInputs)

SpecFormat == EncoderInit /\ [][FormatNext]_vars

(***************************************************************************)
(* SpecConcurrent: two caller threads in FrameDecoder::CopyPixels of one   *)
(* decoder.  A call takes the frame's and the decoder's RwLock with read() *)
(* (decoder/mod.rs:294-296), which any number of threads hold at a time;   *)
(* Initialize takes the decoder's lock with write().  Each Seek and each   *)
(* Read on the shared IWICStream is one step; the stream has one position. *)
(* A thread is [pc, rect, stride, buffer_size, i, skipped, bytes, overrun, *)
(* code, streamed]: pc is "idle", "seek", "read" or "done", i the row the  *)
(* loop is at, skipped whether the row's leading rect.X bytes have been    *)
(* read and streamed whether the call passed its checks and went on to the *)
(* stream.                                                                 *)
(***************************************************************************)
Threads == {1, 2}

IdleThread ==
    [pc |-> "idle", rect |-> NoValue, stride |-> 0, buffer_size |-> 0, i |-> 0,
     skipped |-> FALSE, bytes |-> <<>>, overrun |-> FALSE, code |-> "",
     streamed |-> FALSE]

\* The HRESULT of the checks CopyPixels makes before it touches the stream.
CopyChecks(rect, stride, buffer_size) ==
    LET h == decoder.header
        bpl == bytes_per_line(h.width, h.bit_depth)
        min_buffer_size ==
            IF rect # NoValue
            THEN bytes_per_line(rect.Width % U16, h.bit_depth) * rect.Height
            ELSE bpl * h.height
    IN IF (stride % U16) < bpl THEN "WINCODEC_ERR_INSUFFICIENTBUFFER"
       ELSE IF buffer_size < min_buffer_size THEN "WINCODEC_ERR_INSUFFICIENTBUFFER"
       ELSE IF rect # NoValue
               /\ (\/ rect.X < 0
                   \/ rect.Y < 0
                   \/ rect.X + rect.Width > h.width
                   \/ rect.Y + rect.Height > h.height)
           THEN "E_INVALIDARG"
       ELSE "S_OK"

\* The rows a running call copies and the bytes of each.
ThreadRows(th) ==
    IF th.rect # NoValue THEN th.rect.Height ELSE decoder.header.height
ThreadLine(th) ==
    bytes_per_line(IF th.rect # NoValue THEN th.rect.Width % U16
                   ELSE decoder.header.width,
                   decoder.header.bit_depth)

\* Entry of CopyPixels up to the match on rect: the read locks are taken
\* and the checks made.
BeginCopy(t, rect, stride, buffer_size) ==
    /\ threads[t].pc \in {"idle", "done"}
    /\ calls < MaxCalls
    /\ calls' = calls + 1
    /\ LET th == [IdleThread EXCEPT !.rect = rect, !.stride = stride,
                                    !.buffer_size = buffer_size,
                                    !.bytes = DestBuffer(buffer_size).bytes]
           code == IF decoder = NoValue THEN "E_UNEXPECTED"
                   ELSE CopyChecks(rect, stride, buffer_size)
       IN threads' = [threads EXCEPT ![t] =
                        IF code # "S_OK" THEN [th EXCEPT !.pc = "done", !.code = code]
                        ELSE IF rect # NoValue
                            THEN [th EXCEPT !.pc = "seek", !.streamed = TRUE]
                        ELSE IF ThreadRows(th) = 0
                            THEN [th EXCEPT !.pc = "done", !.code = "S_OK",
                                            !.streamed = TRUE]
                        ELSE [th EXCEPT !.pc = "read", !.streamed = TRUE]]
    /\ UNCHANGED <<file, decoder, pos, dest, dresult, dlast, hvars, evars>>

\* stream.Seek(data_start + offset, STREAM_SEEK_SET)
SeekStep(t) ==
    LET th == threads[t]
        h == decoder.header
    IN /\ th.pc = "seek"
       /\ pos' = h.data_start + bytes_per_line(h.width, h.bit_depth) * th.rect.Y
                     + th.rect.X
       /\ threads' = [threads EXCEPT ![t] =
                        IF ThreadRows(th) = 0
                        THEN [th EXCEPT !.pc = "done", !.code = "S_OK"]
                        ELSE [th EXCEPT !.pc = "read"]]
       /\ UNCHANGED <<file, decoder, dest, dresult, dlast, calls, hvars, evars>>

\* One stream_read_exact of the row loop: the rect.X bytes before a row
\* after the first, or the row.
ReadStep(t) ==
    LET th == threads[t]
        skip == th.i > 0 /\ th.rect # NoValue /\ th.rect.X > 0 /\ ~th.skipped
        n == IF skip THEN th.rect.X ELSE ThreadLine(th)
        r == ReadInto([pos |-> pos, bytes |-> th.bytes, overrun |-> th.overrun],
                      th.i * th.stride, n)
        read == [th EXCEPT !.bytes = r.bytes, !.overrun = r.overrun]
    IN /\ th.pc = "read"
       /\ pos' = r.pos
       /\ threads' = [threads EXCEPT ![t] =
                        IF r.hr # "S_OK"
                        THEN [read EXCEPT !.pc = "done", !.code = "E_UNEXPECTED"]
                        ELSE IF skip THEN [read EXCEPT !.skipped = TRUE]
                        ELSE IF th.i + 1 >= ThreadRows(th)
                            THEN [read EXCEPT !.pc = "done", !.code = "S_OK",
                                              !.i = th.i + 1]
                        ELSE [read EXCEPT !.i = th.i + 1, !.skipped = FALSE]]
       /\ UNCHANGED <<file, decoder, dest, dresult, dlast, calls, hvars, evars>>

\* BitmapDecoder::Initialize under the decoder's write lock: no CopyPixels
\* call holds the read lock.
LockedInitialize ==
    /\ \A t \in Threads : threads[t].pc \in {"idle", "done"}
    /\ DecoderInitialize(file)

ConcurrentInit ==
    /\ file = [bytes |-> ImageBytes(ImageHeader(3, 3, 0), Pixels3x3),
               position |-> 0, short_read |-> "S_FALSE"]
    /\ decoder = NoValue /\ pos = 0 /\ dest = NoValue
    /\ dresult = NoValue /\ dlast = NoValue /\ calls = 0
    /\ threads = [t \in Threads |-> IdleThread]
    /\ HeaderIdle /\ EncoderIdle

\* The calls of the threads: rectangles of full and of partial width, one
\* outside the image, and a stride below a row.
ConcurrentInputs ==
    {WICRect(0, 0, 3, 2), WICRect(0, 1, 3, 2), WICRect(1, 1, 2, 2),
     WICRect(0, 2, 3, 1), WICRect(2, 2, 2, 2)}
    \X {2, 3} \X {9}

ConcurrentNext ==
    \/ LockedInitialize
    \/ \E t \in Threads, c \in ConcurrentInputs : BeginCopy(t, c[1], c[2], c[3])
    \/ \E t \in Threads : SeekStep(t)
    \/ \E t \in Threads : ReadStep(t)

SpecConcurrent == ConcurrentInit /\ [][ConcurrentNext]_vars

(***************************************************************************)
(* The claims.                                                             *)
(***************************************************************************)
\* C1: for every header H that passes validate, from_bytes(to_bytes(H))
\* succeeds and to_bytes of the parsed header equals to_bytes(H).
C1_RoundTrip ==
    /\ (validate(hdr) = "Ok" /\ parsed # NoValue) => parsed.ok
    /\ (validate(hdr) = "Ok" /\ hbytes2 # <<>>) => hbytes2 = hbytes

\* The step is a call of `op` on the frame that returned S_OK.
Succeeded(op) == last'.op = op /\ result'.code = "S_OK"

\* C2: after a successful commit on a frame, a second commit on the same
\* frame returns an error and writes no further bytes to the output sink.
C2_SecondCommitFails ==
    [][(commits >= 1 /\ last'.op = "Commit")
          => (result'.code # "S_OK" /\ sink' = sink)]_vars

\* C3: after a successful commit, every later SetSize, SetPixelFormat,
\* SetPalette, WritePixels or WriteSource on the frame returns an error and
\* leaves header, buffered chunks, accumulated_height and the held palette
\* unchanged.
C3_NoMutationAfterCommit ==
    [][(commits >= 1 /\ last'.op \in {"SetSize", "SetPixelFormat", "SetPalette",
                                       "WritePixels", "WriteSource"})
          => (/\ result'.code # "S_OK"
              /\ UNCHANGED <<header, image_data, accumulated_height, palette>>)]_vars

\* A chunk holds every byte of its declared rows: `lines` rows, `stride`
\* apart, each at least bpl bytes.
ChunkHoldsRows(chunk, bpl) ==
    chunk.lines = 0 \/ (chunk.lines - 1) * chunk.stride + bpl <= Len(chunk.data)

\* Byte i (1-based) of the first bpl bytes of each declared row of a chunk.
RowByte(chunk, bpl, i) ==
    chunk.data[((i - 1) \div bpl) * chunk.stride + ((i - 1) % bpl) + 1]

\* `bytes`, from offset `from` on, is the declared rows of the chunks in order.
RECURSIVE IsPackedRows(_, _, _, _)
IsPackedRows(bytes, from, chunks, bpl) ==
    IF chunks = <<>> THEN Len(bytes) = from
    ELSE LET c == Head(chunks)
             n == c.lines * bpl
         IN /\ ChunkHoldsRows(c, bpl)
            /\ from + n <= Len(bytes)
            /\ \A i \in 1..n : bytes[from + i] = RowByte(c, bpl, i)
            /\ IsPackedRows(bytes, from + n, Tail(chunks), bpl)

\* C4: after a successful commit the bytes written after header and palette
\* are exactly height x bytes_per_line bytes: for each buffered chunk in
\* write order and each of its declared rows, the first bytes_per_line bytes
\* of the row, the rows lying `stride` bytes apart in the chunk.
C4_PixelBytesAreDeclaredRows ==
    [][Succeeded("Commit")
          => LET bpl == bytes_per_line(header'.width, header'.bit_depth)
                 from == Len(sink) + header'.data_start
             IN /\ Len(sink') = from + header'.height * bpl
                /\ IsPackedRows(sink', from, image_data, bpl)]_vars

\* Commit's three precondition checks pass in this state.
CommitPreconditions ==
    /\ header # NoValue
    /\ header.bit_depth # 0
    /\ header.width # 0
    /\ SumLines(image_data).v = header.height

\* C5: the re-validation of the completed header inside commit never fails:
\* in every reachable frame state that passes commit's three checks, with
\* the palette commit resolves there (0 to 256 colours), validate on the
\* header with derived color_register, pal_used and data_start returns Ok.
C5_RevalidationNeverFails ==
    CommitPreconditions
        => validate(CompleteHeader(header,
                        Len(ResolvePalette(palette, parent_palette)))) = "Ok"

\* C6: the first 32 bytes commit writes to the sink are to_bytes of the
\* completed header: every multi-byte field little-endian except
\* data_start, which is big-endian.
C6_HeaderBytesAreToBytes ==
    [][Succeeded("Commit")
          => SubSeq(sink', Len(sink) + 1, Len(sink) + HeaderSize)
                 = to_bytes(header')]_vars

\* C7: write_pixels succeeds only when accumulated_height + line_count <=
\* height, the sum taken as an integer, and otherwise (its earlier checks
\* passed) fails with 'too many scanlines'; and accumulated_height <= header
\* height in every reachable state.
C7_TooManyScanlines ==
    /\ [][last'.op = "WritePixels"
            => /\ result'.code = "S_OK"
                    => accumulated_height + last'.line_count <= header.height
               /\ (/\ result'.code \notin {"E_POINTER", "E_INVALIDARG",
                                           "E_UNEXPECTED", "E_ILLEGAL_STATE_CHANGE"}
                   /\ accumulated_height + last'.line_count > header.height)
                    => result' = Err("WINCODEC_ERR_CODECTOOMANYSCANLINES",
                                     "Too many scanlines")]_vars
    /\ [](header # NoValue => accumulated_height <= header.height)

\* The last call on the decoder was `op`.
DecoderCalled(op) == dlast # NoValue /\ dlast.op = op

\* The rectangle lies inside the image of header h.
RectInside(rect, h) ==
    /\ rect.X >= 0 /\ rect.Y >= 0 /\ rect.Width >= 1 /\ rect.Height >= 1
    /\ rect.X + rect.Width <= h.width
    /\ rect.Y + rect.Height <= h.height

\* Byte `col` of row `row` of the image in the input stream.
ImageByte(row, col) ==
    file.bytes[file.position + decoder.header.data_start
                   + row * bytes_per_line(decoder.header.width,
                                          decoder.header.bit_depth)
                   + col + 1]

\* C8: for an 8-bit image of width W >= 2 and a rectangle inside the image
\* with rect.width < W, copy_pixels with dest_stride =
\* bytes_per_line(rect.width) and a buffer of rect.height x dest_stride
\* bytes succeeds; rect {x:1,y:0,w:1,h:2} with stride 1 and a 2-byte buffer
\* on the 2x2 image [0,1,1,0] returns [1,1].
C8_RectCopySucceeds ==
    (/\ DecoderCalled("CopyPixels")
     /\ decoder # NoValue
     /\ decoder.header.bit_depth = 8
     /\ decoder.header.width >= 2
     /\ dlast.rect # NoValue
     /\ RectInside(dlast.rect, decoder.header)
     /\ dlast.rect.Width < decoder.header.width
     /\ dlast.stride = bytes_per_line(dlast.rect.Width, 8)
     /\ dlast.buffer_size = dlast.rect.Height * dlast.stride)
    => /\ dresult.code = "S_OK"
       /\ (/\ dlast.rect = WICRect(1, 0, 1, 2)
           /\ decoder.header.width = 2 /\ decoder.header.height = 2
           /\ \A i \in 0..3 : ImageByte(i \div 2, i % 2) = Pixels2x2[i + 1])
          => dest.bytes = <<1, 1>>

\* C9: copy_pixels with no rectangle fills destination row r, at offset
\* r x dest_stride, with the bytes_per_line(width) bytes of image row r
\* read starting at data_start, on every call, whatever copy_pixels calls
\* came before it on the decoder.  Stated for a stream handed over at
\* position 0, where the seek at the end of Initialize is to data_start.
C9_WholeImageCopyOnEveryCall ==
    (/\ DecoderCalled("CopyPixels")
     /\ decoder # NoValue
     /\ file.position = 0
     /\ dlast.rect = NoValue
     /\ dlast.stride >= bytes_per_line(decoder.header.width, decoder.header.bit_depth)
     /\ dlast.buffer_size >= decoder.header.height * dlast.stride)
    => /\ dresult.code = "S_OK"
       /\ \A r \in 0..(decoder.header.height - 1) :
            \A j \in 0..(bytes_per_line(decoder.header.width,
                                        decoder.header.bit_depth) - 1) :
               dest.bytes[r * dlast.stride + j + 1] = ImageByte(r, j)

\* C10: decoder initialization succeeds only over a header with compressed
\* = 0; over a valid header with compressed # 0 it fails and the decoder
\* stays uninitialized, so copy_pixels never serves pixel data of a
\* compressed stream.
C10_InitializeOnlyUncompressed ==
    /\ decoder # NoValue => decoder.header.compressed = 0
    /\ (DecoderCalled("Initialize") /\ from_stream.ok
            /\ from_stream.header.compressed # 0)
          => (dresult.code # "S_OK" /\ decoder = NoValue)
    /\ (DecoderCalled("CopyPixels") /\ dresult.code = "S_OK")
          => from_stream.header.compressed = 0


\* The error the checks of a 32-byte input give, taken in the order magic,
\* version, bit depth, register, pairing, data_start; "Ok" if none fails.
FirstFailingCheck(bytes) ==
    LET count == IF bytes[11] = 0 THEN 256 ELSE bytes[11]
    IN IF <<bytes[1], bytes[2], bytes[3]>> # <<66, 77, 88>> THEN "InvalidFileId"
       ELSE IF bytes[4] # 1 THEN "InvalidVersion"
       ELSE IF bytes[5] \notin {1, 2, 4, 8} THEN "InvalidBitDepth"
       ELSE IF bytes[6] \notin {0, 1, 2, 3} THEN "InvalidVeraColorDepthRegister"
       ELSE IF <<bytes[5], bytes[6]>> \notin {<<1, 0>>, <<2, 1>>, <<4, 2>>, <<8, 3>>}
           THEN "BitDepthMismatch"
       ELSE IF bytes[13] + 256 * bytes[14] < 32 + 2 * count THEN "InvalidDataStart"
       ELSE "Ok"

\* C11: parse rejects a length other than 32 as wrong header size; for a
\* 32-byte input it returns the error of the first failing check in the
\* order magic, version, bit_depth, color_register, pairing, data_start >=
\* 32 + 2 x palette_entry_count, and the header if and only if none fails.
C11_ParseChecksInOrder ==
    parsed # NoValue
        => IF Len(hbytes) # 32
           THEN ~parsed.ok /\ parsed.err = "InvalidHeaderSize"
           ELSE IF FirstFailingCheck(hbytes) # "Ok"
           THEN ~parsed.ok /\ parsed.err = FirstFailingCheck(hbytes)
           ELSE /\ parsed.ok
                /\ parsed.header.bit_depth = hbytes[5]
                /\ parsed.header.pal_used = hbytes[11]
                /\ parsed.header.data_start = hbytes[13] + 256 * hbytes[14]

\* A parsed input whose version and bit depth are both bad.
C11_Witness ==
    /\ parsed # NoValue /\ Len(hbytes) = 32
    /\ <<hbytes[1], hbytes[2], hbytes[3]>> = <<66, 77, 88>>
    /\ hbytes[4] # 1 /\ hbytes[5] \notin {1, 2, 4, 8}
    /\ ~parsed.ok /\ parsed.err = "InvalidVersion"


\* The palette the priority rule chooses: the frame's explicit palette, else
\* the encoder's, else the one captured from a source, else the fallback.
PaletteByPriority ==
    IF palette # NoValue /\ palette.tag = "Frame" THEN palette.colors
    ELSE IF parent_palette # NoValue THEN parent_palette.colors
    ELSE IF palette # NoValue THEN palette.colors
    ELSE FixedHalftone256

\* C12: at commit the serialized palette is chosen by priority, whatever the
\* order of the calls before: the palette set explicitly on the frame;
\* otherwise the encoder-level palette; otherwise the palette captured from
\* a bitmap source by write_source; otherwise the 256-colour fallback.  The
\* frame holds an explicit palette from a successful SetPalette on, a
\* captured one from a successful WriteSource on a frame without palette,
\* and the encoder its palette from a successful encoder-level SetPalette.
C12_PalettePriority ==
    /\ [][Succeeded("Commit")
            => LET n == Len(PaletteByPriority)
               IN SubSeq(sink', Len(sink) + HeaderSize + 1,
                         Len(sink) + HeaderSize + 2 * n)
                     = PaletteBytes(PaletteByPriority)]_vars
    /\ [][Succeeded("SetPalette")
            => palette' = [tag |-> "Frame", colors |-> last'.palette.colors]]_vars
    /\ [][Succeeded("EncoderSetPalette") => parent_palette' = last'.palette]_vars
    /\ [][(Succeeded("WriteSource") /\ palette = NoValue)
            => palette' = [tag |-> "BitmapSource", colors |-> PalSource2]]_vars
    /\ [][~Succeeded("SetPalette") /\ palette # NoValue => palette' = palette]_vars
    /\ [][~Succeeded("EncoderSetPalette") => parent_palette' = parent_palette]_vars
    /\ [][~Succeeded("SetPalette") /\ ~Succeeded("WriteSource") /\ palette = NoValue
            => palette' = NoValue]_vars

\* A commit served the encoder's palette although a source's was captured.
C12_Witness ==
    /\ last # NoValue /\ last.op = "Commit" /\ result.code = "S_OK"
    /\ palette # NoValue /\ palette.tag = "BitmapSource"
    /\ parent_palette # NoValue
    /\ SubSeq(sink, Len(sink) - 5, Len(sink) - 4) = PaletteBytes(PalEncoder1)


\* C13: after a successful commit with a resolved palette of n colours the
\* header has pal_used = 0 if n = 256 and pal_used = n otherwise,
\* data_start = 32 + 2n and the color register paired with the bit depth
\* as (1,0), (2,1), (4,2), (8,3); exactly n two-byte palette entries are
\* written between the header and the pixel data.
C13_CommitCompletesHeader ==
    [][Succeeded("Commit")
          => LET n == Len(PaletteByPriority)
                 written == SubSeq(sink', Len(sink) + 1, Len(sink'))
                 rows == header'.height
                             * bytes_per_line(header'.width, header'.bit_depth)
             IN /\ header'.pal_used = (IF n = 256 THEN 0 ELSE n)
                /\ header'.data_start = 32 + 2 * n
                /\ <<header'.bit_depth, header'.vera_color_depth_register>>
                       \in {<<1, 0>>, <<2, 1>>, <<4, 2>>, <<8, 3>>}
                /\ written[11] = header'.pal_used
                /\ written[6] = header'.vera_color_depth_register
                /\ Len(written) = 32 + 2 * n + rows
                /\ SubSeq(written, 33, 32 + 2 * n) = PaletteBytes(PaletteByPriority)
                /\ SubSeq(written, 33 + 2 * n, Len(written))
                       = WriteChunks(image_data, rows \div header'.height).bytes]_vars

\* A 1-bit frame committed with the 256 colours of the fallback palette.
C13_Witness ==
    /\ last # NoValue /\ last.op = "Commit" /\ result.code = "S_OK"
    /\ header.bit_depth = 1 /\ header.vera_color_depth_register = 0
    /\ header.pal_used = 0 /\ header.data_start = 544
    /\ Len(sink) = 545


\* The number of scanlines the buffered chunks declare, as an integer.
RECURSIVE TotalLines(_)
TotalLines(chunks) ==
    IF chunks = <<>> THEN 0 ELSE Head(chunks).lines + TotalLines(Tail(chunks))

\* C14: commit fails, writing nothing to the sink and changing no frame
\* state, when the bit depth is unset, when the width is unset and when the
\* total of buffered scanlines differs from the declared height; the three
\* cases are reported as three distinct errors.
C14_CommitPreconditionsFail ==
    [][(last'.op = "Commit" /\ header # NoValue)
          => /\ (\/ header.bit_depth = 0
                 \/ header.width = 0
                 \/ TotalLines(image_data) # header.height)
                  => /\ result'.code \notin {"S_OK", "panic"}
                     /\ sink' = sink
                     /\ UNCHANGED FrameState
             /\ header.bit_depth = 0
                  => result'.msg = "Pixel format must be set before committing"
             /\ (header.bit_depth # 0 /\ header.width = 0)
                  => result'.msg = "Size must be set before committing"
             /\ (header.bit_depth # 0 /\ header.width # 0
                     /\ TotalLines(image_data) # header.height)
                  => result'.msg = "Not enough scanlines written"]_vars


\* The frame's geometry.
Geometry == <<header.width, header.height, header.bit_depth>>

\* C15: once a write_source call with header width unset has established
\* the frame geometry, no later set_size, set_pixel_format, write_pixels or
\* write_source changes header width, height or bit depth.  Stated for the
\* call that follows that write_source.
C15_GeometryPermanent ==
    [][(/\ last # NoValue /\ last.op = "WriteSource" /\ result.code = "S_OK"
        /\ last.header_width_zero
        /\ last'.op \in {"SetSize", "SetPixelFormat", "WritePixels", "WriteSource"})
          => Geometry' = Geometry]_vars


\* C16: set_size(w,h) fails when w or h is zero, fails with 'size already
\* set' when a stored nonzero width or height differs from the new value,
\* and otherwise stores both; on every failure header width and height are
\* unchanged, and a nonzero stored size never changes.  Stated for an
\* initialized frame and 16-bit w and h.
C16_SetSize ==
    /\ [][(last'.op = "SetSize" /\ header # NoValue
             /\ last'.width < U16 /\ last'.height < U16)
            => IF last'.width = 0 \/ last'.height = 0
               THEN result'.code = "E_INVALIDARG" /\ header' = header
               ELSE IF \/ (header.width # 0 /\ header.width # last'.width)
                       \/ (header.height # 0 /\ header.height # last'.height)
               THEN /\ result' = Err("E_INVALIDARG", "Size has already been set")
                    /\ header' = header
               ELSE /\ result'.code = "S_OK"
                    /\ header'.width = last'.width
                    /\ header'.height = last'.height]_vars
    /\ [][(last'.op = "SetSize" /\ result'.code # "S_OK") => header' = header]_vars
    /\ [][(header # NoValue /\ header.width # 0)
            => (header'.width = header.width /\ header'.height = header.height)]_vars

\* A second size that differs from the stored 4x2 was refused.
C16_Witness ==
    /\ last # NoValue /\ last.op = "SetSize"
    /\ last.width = 2 /\ last.height = 2
    /\ result = Err("E_INVALIDARG", "Size has already been set")
    /\ header.width = 4 /\ header.height = 2

\* C17: write_pixels fails with an illegal-state error, appending no chunk
\* and leaving accumulated_height unchanged, whenever the header bit depth
\* or the header width is still unset.  The illegal-state error is the
\* outcome of a call whose arguments pass the argument checks (a buffer, at
\* least `stride` bytes of it, a 16-bit line count); with other arguments
\* the call fails on them, with the same absence of effects.
C17_WritePixelsIllegalState ==
    [][(last'.op = "WritePixels" /\ header # NoValue
           /\ (header.bit_depth = 0 \/ header.width = 0))
          => /\ result'.code \notin {"S_OK", "panic"}
             /\ image_data' = image_data
             /\ accumulated_height' = accumulated_height
             /\ result'.code \notin {"E_POINTER", "E_INVALIDARG"}
                  => result'.code = "E_ILLEGAL_STATE_CHANGE"
             /\ result'.code \in {"E_POINTER", "E_INVALIDARG"}
                  => \/ result'.code = "E_POINTER"
                     \/ last'.buffer_size < last'.stride
                     \/ last'.line_count >= U16]_vars

\* Rows were refused on a frame with the format set and the width unset.
C17_Witness ==
    /\ last # NoValue /\ last.op = "WritePixels"
    /\ result = Err("E_ILLEGAL_STATE_CHANGE", "Size must be set before writing pixels")
    /\ header.bit_depth = 8 /\ header.width = 0
    /\ image_data = <<>> /\ accumulated_height = 0


\* The source of the name a WriteSource call recorded.
SourceNamed(name) == CHOOSE s \in Sources : s.name = name

\* The effective region of a WriteSource call: the source's extent, cut to
\* the rect if there is one; empty if they do not meet.
EffectiveRegion(src, rect) ==
    IF rect = NoValue THEN [Width |-> src.width, Height |-> src.height]
    ELSE LET w == Min(src.width, rect.X + rect.Width) - Max(0, rect.X)
             h == Min(src.height, rect.Y + rect.Height) - Max(0, rect.Y)
         IN IF w < 0 \/ h < 0 THEN [Width |-> 0, Height |-> 0]
            ELSE [Width |-> w, Height |-> h]

\* The messages of the checks WriteSource makes before it compares the
\* region with the header.
EarlierSourceChecks ==
    {"Invalid rect", "Rect too large", "GetSize", "GetResolution",
     "GetPixelFormat", "DPI must be 96", "Invalid pixel format",
     "Mismatch between pixel format and bit depth"}

\* C18: when header width is already nonzero, write_source succeeds only if
\* the effective region's width equals the header width and
\* accumulated_height plus the region's height does not exceed header
\* height, as integers, for any source size and rect; otherwise (its
\* earlier checks passed) it fails with 'rect does not match dimensions' or
\* 'too many scanlines' respectively.
C18_WriteSourceFitsHeader ==
    [][(/\ last'.op = "WriteSource" /\ last'.source # "null"
        /\ header # NoValue /\ header.width # 0)
          => LET r == EffectiveRegion(SourceNamed(last'.source), last'.rect)
                 fits == accumulated_height + r.Height <= header.height
             IN /\ result'.code = "S_OK" => (r.Width = header.width /\ fits)
                /\ (result'.msg \notin EarlierSourceChecks /\ r.Width # header.width)
                     => result'.code = "WINCODEC_ERR_SOURCERECTDOESNOTMATCHDIMENSIONS"
                /\ (result'.msg \notin EarlierSourceChecks /\ r.Width = header.width
                        /\ ~fits)
                     => result'.code = "WINCODEC_ERR_CODECTOOMANYSCANLINES"]_vars


\* C19: a write_source call that fails for any reason (invalid or oversized
\* rect, DPI outside 96 +/- 0.5, unsupported source pixel format, bit-depth
\* mismatch, width mismatch, too many scanlines, an error reading the
\* source) leaves header, buffered chunks, accumulated_height and the held
\* palette as before the call; a source format that is not one of the four
\* indexed formats is refused, never substituted.
C19_FailedWriteSourceNoEffect ==
    /\ [][(last'.op = "WriteSource" /\ result'.code # "S_OK")
            => UNCHANGED FrameState]_vars
    /\ [][(/\ last'.op = "WriteSource" /\ last'.source # "null"
           /\ SourceNamed(last'.source).pixel_format
                 \notin {"1bppIndexed", "2bppIndexed", "4bppIndexed", "8bppIndexed"})
            => (result'.code # "S_OK" /\ UNCHANGED FrameState)]_vars

\* The source failed to deliver its pixels, the last step before
\* write_source stores anything, on a frame without size and palette.
C19_Witness ==
    /\ last # NoValue /\ last.op = "WriteSource" /\ last.source = "nopixels"
    /\ result = Err("E_FAIL", "CopyPixels")
    /\ header # NoValue /\ header.width = 0 /\ palette = NoValue


IndexedFormats == {"1bppIndexed", "2bppIndexed", "4bppIndexed", "8bppIndexed"}

\* C20: set_pixel_format on an initialized frame never fails: for each of
\* the four indexed formats it sets bit depth 1, 2, 4 or 8 and leaves the
\* caller's format unchanged; for every other format it sets bit depth 8
\* and returns 8-bit-indexed to the caller as the format actually used.
C20_SetPixelFormat ==
    [][(/\ last'.op = "SetPixelFormat" /\ last'.requested # "null"
        /\ header # NoValue)
          => /\ result' = Ok
             /\ last'.requested = "1bppIndexed"
                  => (header'.bit_depth = 1 /\ last'.pixelformat = "1bppIndexed")
             /\ last'.requested = "2bppIndexed"
                  => (header'.bit_depth = 2 /\ last'.pixelformat = "2bppIndexed")
             /\ last'.requested = "4bppIndexed"
                  => (header'.bit_depth = 4 /\ last'.pixelformat = "4bppIndexed")
             /\ last'.requested = "8bppIndexed"
                  => (header'.bit_depth = 8 /\ last'.pixelformat = "8bppIndexed")
             /\ last'.requested \notin IndexedFormats
                  => (header'.bit_depth = 8 /\ last'.pixelformat = "8bppIndexed")
             /\ header' = [header EXCEPT !.bit_depth = header'.bit_depth]]_vars

\* A format that is not indexed was requested on a frame that already
\* holds rows, and 8-bit-indexed came back.
C20_Witness ==
    /\ last # NoValue /\ last.op = "SetPixelFormat"
    /\ last.requested = "32bppBGRA" /\ last.pixelformat = "8bppIndexed"
    /\ result = Ok /\ header # NoValue /\ header.bit_depth = 8
    /\ image_data # <<>>


\* Width and row count of the region a CopyPixels call asks for.
CopiedWidth == IF dlast.rect = NoValue THEN decoder.header.width ELSE dlast.rect.Width
CopiedRows == IF dlast.rect = NoValue THEN decoder.header.height ELSE dlast.rect.Height

\* C21: for every dest_stride, with or without a rectangle, copy_pixels is
\* rejected with the buffer-too-small error if dest_stride <
\* bytes_per_line(header.width, header.bit_depth), and with the same error
\* if the destination buffer is smaller than bytes_per_line(copied width) x
\* copied row count.
C21_CopyPixelsBufferChecks ==
    (DecoderCalled("CopyPixels") /\ decoder # NoValue)
    => /\ dlast.stride < bytes_per_line(decoder.header.width, decoder.header.bit_depth)
            => dresult.code = "WINCODEC_ERR_INSUFFICIENTBUFFER"
       /\ dlast.buffer_size
              < bytes_per_line(CopiedWidth, decoder.header.bit_depth) * CopiedRows
            => dresult.code = "WINCODEC_ERR_INSUFFICIENTBUFFER"

\* A one-column rectangle of the 3x3 image was asked for with a stride of
\* one byte and a buffer large enough for it, and the call was rejected
\* for its stride.
C21_Witness ==
    /\ DecoderCalled("CopyPixels") /\ decoder # NoValue
    /\ decoder.header.width = 3
    /\ dlast.rect = WICRect(0, 0, 1, 2) /\ dlast.stride = 1 /\ dlast.buffer_size = 4
    /\ dresult.code = "WINCODEC_ERR_INSUFFICIENTBUFFER"
    /\ dest.bytes = DestBuffer(4).bytes


\* Destination offset j (from 0) lies in one of the copied rows.
InCopiedRow(j) ==
    \E r \in 0..(CopiedRows - 1) :
        /\ r * dlast.stride <= j
        /\ j < r * dlast.stride + bytes_per_line(CopiedWidth, decoder.header.bit_depth)

\* C22: a successful copy_pixels writes only destination bytes in
\* [r x dest_stride, r x dest_stride + bytes_per_line(copied width)) for r
\* below the copied row count; every other destination byte keeps its prior
\* value and no byte at or beyond the declared buffer size is written, for
\* every dest_stride >= the required minimum.
C22_CopyPixelsWritesOnlyRows ==
    (DecoderCalled("CopyPixels") /\ decoder # NoValue /\ dresult.code = "S_OK")
    => /\ ~dest.overrun
       /\ \A j \in 0..(dlast.buffer_size - 1) :
            ~InCopiedRow(j) => dest.bytes[j + 1] = DestBuffer(dlast.buffer_size).bytes[j + 1]


\* C26: whenever copy_pixels with a rectangle succeeds on an 8-bit image,
\* destination row r (at offset r x dest_stride) holds the rect.width source
\* bytes of image row rect.y + r starting at column rect.x, for every r <
\* rect.height and every rectangle inside the image (including rectangles
\* with rect.x + rect.width < image width).
C26_RectRowsHoldSourceBytes ==
    (/\ DecoderCalled("CopyPixels") /\ decoder # NoValue
     /\ decoder.header.bit_depth = 8
     /\ dlast.rect # NoValue /\ RectInside(dlast.rect, decoder.header)
     /\ dresult.code = "S_OK")
    => \A r \in 0..(dlast.rect.Height - 1) : \A j \in 0..(dlast.rect.Width - 1) :
          r * dlast.stride + j < dlast.buffer_size
            => dest.bytes[r * dlast.stride + j + 1]
                  = ImageByte(dlast.rect.Y + r, dlast.rect.X + j)


\* b & 0xF0: the byte with its low nibble cleared.
HighNibble(b) == b - (b % 16)

\* C23: for all 8-bit r, g, b: to_rgb(from_rgb(r,g,b)) == (r & 0xF0,
\* g & 0xF0, b & 0xF0); hence from_rgb(to_rgb(from_rgb(r,g,b))) ==
\* from_rgb(r,g,b).
C23_PaletteRoundTrip ==
    /\ rgb_out # NoValue
          => rgb_out.rgb = <<HighNibble(argb[2]), HighNibble(argb[3]), HighNibble(argb[4])>>
    /\ repacked # NoValue => repacked = entry.e

\* 0xAB, 0x7F, 0x11 went through from_rgb, to_rgb and from_rgb again.
C23_Witness ==
    /\ entry # NoValue /\ entry.via = "from_rgb"
    /\ argb[2] = 171 /\ argb[3] = 127 /\ argb[4] = 17
    /\ rgb_out # NoValue /\ rgb_out.rgb = <<160, 112, 16>>
    /\ repacked # NoValue

\* C24: for all 8-bit r, g, b the packed entry produced by from_rgb has
\* byte 0 = ((g >> 4) << 4) | (b >> 4) and byte 1 = r >> 4, and the 32-bit
\* conversions use the same nibble math: from_wic ignores the alpha byte
\* and to_wic always yields alpha 0xFF.
C24_PackedEntry ==
    /\ entry # NoValue
          => /\ entry_memory(entry.e)[1] \div 16 = argb[3] \div 16
             /\ entry_memory(entry.e)[1] % 16 = argb[4] \div 16
             /\ entry_memory(entry.e)[2] = argb[2] \div 16
    /\ wic_out # NoValue
          => wic_out.color = <<255, HighNibble(argb[2]), HighNibble(argb[3]),
                               HighNibble(argb[4])>>

\* 0x12AB7F11 went through from_wic and to_wic: entry bytes 0x71, 0x0A and
\* colour 0xFFA07010.
C24_Witness ==
    /\ entry # NoValue /\ entry.via = "from_wic"
    /\ argb[1] = 18 /\ argb[2] = 171 /\ argb[3] = 127 /\ argb[4] = 17
    /\ entry_memory(entry.e) = <<113, 10>>
    /\ wic_out # NoValue /\ wic_out.color = <<255, 160, 112, 16>>

\* C25: bytes_per_line(w, b) equals ceil(w x b / 8) for every 16-bit width
\* w and every b in {1,2,4,8}, with the 16-bit result never truncated; in
\* particular bytes_per_line(w,8) == w and bytes_per_line(w,1) ==
\* ceil(w/8).
C25_BytesPerLine ==
    "bytes" \in DOMAIN line
    => /\ 8 * line.bytes >= line.width * line.bit_depth
       /\ 8 * (line.bytes - 1) < line.width * line.bit_depth
       /\ line.bit_depth = 8 => line.bytes = line.width
       /\ line.bit_depth = 1 => (8 * line.bytes >= line.width
                                    /\ 8 * (line.bytes - 1) < line.width)

\* The widest 8-bit line: 65535 bytes, the top of the u16 range.
C25_Witness ==
    /\ "bytes" \in DOMAIN line
    /\ line.width = 65535 /\ line.bit_depth = 8 /\ line.bytes = 65535


\* C27: after initialize, set_size(w,h) and one successful write_source of a
\* w x h source in a supported indexed format (with no set_pixel_format
\* call, so that the bit depth is still unset), the header bit depth equals
\* the source's bit depth and commit succeeds.
C27_WriteSourceSetsBitDepth ==
    /\ [][(/\ last'.op = "WriteSource" /\ result'.code = "S_OK"
           /\ header # NoValue /\ header.width # 0 /\ header.bit_depth = 0
           /\ image_data = <<>>
           /\ SourceNamed(last'.source).width = header.width
           /\ SourceNamed(last'.source).height = header.height)
            => header'.bit_depth
                  = pixel_format_to_bit_depth(SourceNamed(last'.source).pixel_format)]_vars
    /\ [][(/\ last # NoValue /\ last.op = "WriteSource" /\ result.code = "S_OK"
           /\ Len(image_data) = 1
           /\ SourceNamed(last.source).width = header.width
           /\ SourceNamed(last.source).height = header.height
           /\ last'.op = "Commit" /\ last'.stream_ok)
            => result'.code = "S_OK"]_vars


\* C28: in every reachable frame-encoder state, after any sequence of
\* write_pixels and write_source calls (successful or failed),
\* accumulated_height equals the sum of the line counts of the buffered
\* chunks, which is the quantity commit compares with the declared height.
C28_AccumulatedHeightIsChunkSum ==
    /\ accumulated_height = TotalLines(image_data)
    /\ SumLines(image_data).v = TotalLines(image_data)


\* The bytes a step appended to the sink.
Written == SubSeq(sink', Len(sink) + 1, Len(sink'))

\* C29: parsing the first 32 bytes written by any successful commit with
\* from_bytes succeeds and yields the same width, height, bit_depth,
\* color register, pal_used and data_start as the encoder's completed
\* header, so the decoder locates the pixel data the encoder wrote:
\* data_start is the end of the palette that follows the header.
C29_CommittedHeaderParses ==
    [][(last'.op = "Commit" /\ result'.code = "S_OK")
         => LET p == from_bytes(SubSeq(Written, 1, HeaderSize))
            IN /\ p.ok
               /\ p.header.width = header'.width
               /\ p.header.height = header'.height
               /\ p.header.bit_depth = header'.bit_depth
               /\ p.header.vera_color_depth_register = header'.vera_color_depth_register
               /\ p.header.pal_used = header'.pal_used
               /\ p.header.data_start = header'.data_start
               /\ Len(Written) >= p.header.data_start
               /\ p.header.data_start
                     = HeaderSize + PaletteEntrySize * palette_entry_count(p.header)]_vars

\* A 4-bit frame with the two-colour frame palette was committed: 32 header
\* bytes, 4 palette bytes and one 2-byte row.
C29_Witness ==
    /\ last # NoValue /\ last.op = "Commit" /\ result = Ok
    /\ header.bit_depth = 4 /\ header.pal_used = 2 /\ header.data_start = 36
    /\ Len(sink) = 38 /\ from_bytes(SubSeq(sink, 1, HeaderSize)).ok


\* What the call a thread is in returns when no other call runs: the
\* outcome of CopyPixels' row loop from the call's own seek target.
Alone(th) ==
    LET h == decoder.header
    IN CopyRows([pos |-> h.data_start
                           + bytes_per_line(h.width, h.bit_depth) * th.rect.Y
                           + th.rect.X,
                 bytes |-> DestBuffer(th.buffer_size).bytes,
                 overrun |-> FALSE, hr |-> "S_OK"],
                0, th.rect.Height, th.rect.X, ThreadLine(th), th.stride)

\* C30: when two threads call copy_pixels concurrently on frames of the same
\* initialized decoder, the locks taken keep each call's seek-and-read
\* sequence on the shared stream from interleaving with the other's, so
\* each call returns the bytes it would return when run alone.
C30_ConcurrentCopiesAsAlone ==
    /\ \A t \in Threads, u \in Threads :
          (t # u /\ threads[t].pc \in {"seek", "read"})
             => threads[u].pc \notin {"seek", "read"}
    /\ \A t \in Threads :
          (threads[t].pc = "done" /\ threads[t].streamed)
             => /\ threads[t].bytes = Alone(threads[t]).bytes
                /\ threads[t].code = "S_OK" <=> Alone(threads[t]).hr = "S_OK"

=============================================================================
